---------------------------- MODULE Spec2Model ----------------------------
(***************************************************************************)
(* Hash engines of Hash.h (C interface): the SHA-2 family, SHA-1 and MD5   *)
(* streaming engines, their block transforms, padding and digest           *)
(* rendering.                                                              *)
(*                                                                         *)
(* Representation.  A byte is a number in 0..255.  A machine word          *)
(* (uint32_t, uint64_t) is the tuple of its 16-bit limbs, most significant *)
(* first (2 limbs for uint32_t, 4 for uint64_t), so that arithmetic modulo *)
(* 2^32 and 2^64 is exact.  Memory (the engine buffer, the bytes of a word *)
(* seen through a pointer) is a tuple of bytes in address order; ToMem and *)
(* FromMem convert between a word and its bytes in memory on a little- or  *)
(* big-endian host.                                                        *)
(***************************************************************************)
EXTENDS Integers, Sequences, FiniteSets, TLC

----------------------------------------------------------------------------
(* Bytes and words *)

RECURSIVE BitAnd(_, _)
BitAnd(a, b) ==
  IF a = 0 \/ b = 0 THEN 0
  ELSE (a % 2) * (b % 2) + 2 * BitAnd(a \div 2, b \div 2)

\* a & b and a ^ b for bytes a, b, tabulated at [a + 1][b + 1]
AndT == [a \in 1..256 |-> [b \in 1..256 |-> BitAnd(a - 1, b - 1)]]
XorT == [a \in 1..256 |-> [b \in 1..256 |-> (a - 1) + (b - 1) - 2 * AndT[a][b]]]

\* &, | and ^ on 16-bit limbs
AndL(a, b) == AndT[(a \div 256) + 1][(b \div 256) + 1] * 256 + AndT[(a % 256) + 1][(b % 256) + 1]
XorL(a, b) == XorT[(a \div 256) + 1][(b \div 256) + 1] * 256 + XorT[(a % 256) + 1][(b % 256) + 1]
OrL(a, b)  == a + b - AndL(a, b)

Pow2 == <<1, 2, 4, 8, 16, 32, 64, 128, 256, 512, 1024, 2048, 4096, 8192, 16384, 32768, 65536>>
P2(r) == Pow2[r + 1]

\* &, |, ^ and ~ on words, limb by limb
WAnd(a, b) ==
  IF Len(a) = 2 THEN <<AndL(a[1], b[1]), AndL(a[2], b[2])>>
  ELSE <<AndL(a[1], b[1]), AndL(a[2], b[2]), AndL(a[3], b[3]), AndL(a[4], b[4])>>
WOr(a, b) ==
  IF Len(a) = 2 THEN <<OrL(a[1], b[1]), OrL(a[2], b[2])>>
  ELSE <<OrL(a[1], b[1]), OrL(a[2], b[2]), OrL(a[3], b[3]), OrL(a[4], b[4])>>
WXor(a, b) ==
  IF Len(a) = 2 THEN <<XorL(a[1], b[1]), XorL(a[2], b[2])>>
  ELSE <<XorL(a[1], b[1]), XorL(a[2], b[2]), XorL(a[3], b[3]), XorL(a[4], b[4])>>
WNot(a) ==
  IF Len(a) = 2 THEN <<65535 - a[1], 65535 - a[2]>>
  ELSE <<65535 - a[1], 65535 - a[2], 65535 - a[3], 65535 - a[4]>>

\* limb i of a, 0 outside the word
LimbAt(a, i) == IF i >= 1 /\ i <= Len(a) THEN a[i] ELSE 0

\* limb i of a >> (16 * q + r) and of a << (16 * q + r), r < 16
ShRLimb(a, q, r, i) ==
  (LimbAt(a, i - q) \div P2(r)) + (LimbAt(a, i - q - 1) % P2(r)) * P2(16 - r)
ShLLimb(a, q, r, i) ==
  (LimbAt(a, i + q) % P2(16 - r)) * P2(r) + (LimbAt(a, i + q + 1) \div P2(16 - r))

\* a >> c and a << c on a word, 0 < c < 16 * Len(a)
ShR(a, c) ==
  IF Len(a) = 2
  THEN <<ShRLimb(a, c \div 16, c % 16, 1), ShRLimb(a, c \div 16, c % 16, 2)>>
  ELSE <<ShRLimb(a, c \div 16, c % 16, 1), ShRLimb(a, c \div 16, c % 16, 2),
         ShRLimb(a, c \div 16, c % 16, 3), ShRLimb(a, c \div 16, c % 16, 4)>>
ShL(a, c) ==
  IF Len(a) = 2
  THEN <<ShLLimb(a, c \div 16, c % 16, 1), ShLLimb(a, c \div 16, c % 16, 2)>>
  ELSE <<ShLLimb(a, c \div 16, c % 16, 1), ShLLimb(a, c \div 16, c % 16, 2),
         ShLLimb(a, c \div 16, c % 16, 3), ShLLimb(a, c \div 16, c % 16, 4)>>

\* a + b modulo 2^(16 * Len(a))
Add(a, b) ==
  IF Len(a) = 2
  THEN LET s2 == a[2] + b[2]
           s1 == a[1] + b[1] + (s2 \div 65536)
       IN <<s1 % 65536, s2 % 65536>>
  ELSE LET s4 == a[4] + b[4]
           s3 == a[3] + b[3] + (s4 \div 65536)
           s2 == a[2] + b[2] + (s3 \div 65536)
           s1 == a[1] + b[1] + (s2 \div 65536)
       IN <<s1 % 65536, s2 % 65536, s3 % 65536, s4 % 65536>>

W32(hi, lo) == <<hi, lo>>
W64(a, b, c, d) == <<a, b, c, d>>

\* the word of n limbs whose value is the small number v (v < 2^31)
WordOf(v, n) ==
  IF n = 2 THEN <<v \div 65536, v % 65536>> ELSE <<0, 0, v \div 65536, v % 65536>>

\* the value of a word that fits a model integer (its high limbs are 0)
ValueOf(w) == w[Len(w) - 1] * 65536 + w[Len(w)]

Reverse(s) == [i \in 1..Len(s) |-> s[Len(s) + 1 - i]]

\* the bytes of a word, most significant first, and back
WordBytes(w) == [i \in 1..(2 * Len(w)) |->
                   IF i % 2 = 1 THEN w[(i + 1) \div 2] \div 256 ELSE w[i \div 2] % 256]
BytesWord(b) == [i \in 1..(Len(b) \div 2) |-> b[2 * i - 1] * 256 + b[2 * i]]

\* the bytes of word v in memory, and the word a run of memory bytes holds
ToMem(v, le)   == IF le THEN Reverse(WordBytes(v)) ELSE WordBytes(v)
FromMem(m, le) == IF le THEN BytesWord(Reverse(m)) ELSE BytesWord(m)

\* hash_util_swap_endian_<type>: reverses the bytes of the object
hash_util_swap_endian(u) == BytesWord(Reverse(WordBytes(u)))

\* (n >> c) | (n << (w - c)) on a word of w bits, 0 < c < w: the two operands of |
\* have no bit in common, so limb i of the result is the sum of the two parts
RotRLimb(a, n, q, r, i) ==
  (a[((i - q - 1 + n) % n) + 1] \div P2(r)) + (a[((i - q - 2 + n) % n) + 1] % P2(r)) * P2(16 - r)
RotR(a, c) ==
  IF Len(a) = 2
  THEN <<RotRLimb(a, 2, c \div 16, c % 16, 1), RotRLimb(a, 2, c \div 16, c % 16, 2)>>
  ELSE <<RotRLimb(a, 4, c \div 16, c % 16, 1), RotRLimb(a, 4, c \div 16, c % 16, 2),
         RotRLimb(a, 4, c \div 16, c % 16, 3), RotRLimb(a, 4, c \div 16, c % 16, 4)>>

hash_util_right_rotate_u32(n, c) == RotR(n, c)
hash_util_right_rotate_u64(n, c) == RotR(n, c)
hash_util_left_rotate_u32(n, c)  == RotR(n, 32 - c)

----------------------------------------------------------------------------
(* Memory and text helpers *)

\* memset(&buf[off], val, n) and memcpy(&buf[off], src, Len(src))
Memset(buf, off, val, n) ==
  [i \in 1..Len(buf) |-> IF i > off /\ i <= off + n THEN val ELSE buf[i]]
Memcpy(buf, off, src) ==
  [i \in 1..Len(buf) |-> IF i > off /\ i <= off + Len(src) THEN src[i - off] ELSE buf[i]]

\* h[i] += r[i] on every word of h: the additions that end a transform
AddWords(h, r) == [i \in 1..Len(h) |-> Add(h[i], r[i])]

\* finalize of a SHA engine, the padding: the byte 0x80 at the buffer position, and
\* zeros from the next byte up to byte end
sha_pad_bytes(s, end) ==
  [s EXCEPT !.buffer = Memset([@ EXCEPT ![s.bufferSize + 1] = 128], (s.bufferSize + 1) % 256, 0,
                              end - ((s.bufferSize + 1) % 256))]

\* finalize of a SHA engine, the length: bitlen is completed with the bytes waiting
\* and stored big-endian at byte at of the buffer
sha_pad_length(s, at, le) ==
  LET bitlen == Add(s.bitlen, WordOf(s.bufferSize * 8, 4))
      size == IF le THEN hash_util_swap_endian(bitlen) ELSE bitlen
  IN [s EXCEPT !.bitlen = bitlen, !.buffer = Memcpy(@, at, ToMem(size, le))]

HexChars == <<"0", "1", "2", "3", "4", "5", "6", "7", "8", "9", "a", "b", "c", "d", "e", "f">>

\* printf("%04x") of a 16-bit limb; "%08x" / "%016x" of a word prints its limbs in order
HexLimb(v) == <<HexChars[(v \div 4096) + 1], HexChars[((v \div 256) % 16) + 1],
                HexChars[((v \div 16) % 16) + 1], HexChars[(v % 16) + 1]>>
HexWord(w) == IF Len(w) = 2 THEN HexLimb(w[1]) \o HexLimb(w[2])
              ELSE HexLimb(w[1]) \o HexLimb(w[2]) \o HexLimb(w[3]) \o HexLimb(w[4])

\* sprintf(&buff[off], "%0..x", w): the digits and the terminating NUL
NUL == "NUL"
Sprintf(buff, off, w) == Memcpy(buff, off, HexWord(w) \o <<NUL>>)

\* an empty char buffer of n characters
Chars(n) == [i \in 1..n |-> NUL]

\* the value of a byte of memory that was never written
Junk == 170

\* the C string a char buffer holds: the characters before the first NUL
RECURSIVE CStrLen(_, _)
CStrLen(buff, i) ==
  IF i > Len(buff) \/ buff[i] = NUL THEN i - 1 ELSE CStrLen(buff, i + 1)
CStr(buff) == SubSeq(buff, 1, CStrLen(buff, 1))

----------------------------------------------------------------------------
(* SHA-256 *)

sha256_k ==
  << W32(\h428a, \h2f98), W32(\h7137, \h4491), W32(\hb5c0, \hfbcf), W32(\he9b5, \hdba5),
     W32(\h3956, \hc25b), W32(\h59f1, \h11f1), W32(\h923f, \h82a4), W32(\hab1c, \h5ed5),
     W32(\hd807, \haa98), W32(\h1283, \h5b01), W32(\h2431, \h85be), W32(\h550c, \h7dc3),
     W32(\h72be, \h5d74), W32(\h80de, \hb1fe), W32(\h9bdc, \h06a7), W32(\hc19b, \hf174),
     W32(\he49b, \h69c1), W32(\hefbe, \h4786), W32(\h0fc1, \h9dc6), W32(\h240c, \ha1cc),
     W32(\h2de9, \h2c6f), W32(\h4a74, \h84aa), W32(\h5cb0, \ha9dc), W32(\h76f9, \h88da),
     W32(\h983e, \h5152), W32(\ha831, \hc66d), W32(\hb003, \h27c8), W32(\hbf59, \h7fc7),
     W32(\hc6e0, \h0bf3), W32(\hd5a7, \h9147), W32(\h06ca, \h6351), W32(\h1429, \h2967),
     W32(\h27b7, \h0a85), W32(\h2e1b, \h2138), W32(\h4d2c, \h6dfc), W32(\h5338, \h0d13),
     W32(\h650a, \h7354), W32(\h766a, \h0abb), W32(\h81c2, \hc92e), W32(\h9272, \h2c85),
     W32(\ha2bf, \he8a1), W32(\ha81a, \h664b), W32(\hc24b, \h8b70), W32(\hc76c, \h51a3),
     W32(\hd192, \he819), W32(\hd699, \h0624), W32(\hf40e, \h3585), W32(\h106a, \ha070),
     W32(\h19a4, \hc116), W32(\h1e37, \h6c08), W32(\h2748, \h774c), W32(\h34b0, \hbcb5),
     W32(\h391c, \h0cb3), W32(\h4ed8, \haa4a), W32(\h5b9c, \hca4f), W32(\h682e, \h6ff3),
     W32(\h748f, \h82ee), W32(\h78a5, \h636f), W32(\h84c8, \h7814), W32(\h8cc7, \h0208),
     W32(\h90be, \hfffa), W32(\ha450, \h6ceb), W32(\hbef9, \ha3f7), W32(\hc671, \h78f2) >>

\* one iteration of the 64-round loop on r = <<a, b, c, d, e, f, g, h>>
sha256_round(r, ki, wi) ==
  LET a == r[1]  b == r[2]  c == r[3]  d == r[4]
      e == r[5]  f == r[6]  g == r[7]  h == r[8]
      s1 == WXor(WXor(hash_util_right_rotate_u32(e, 6), hash_util_right_rotate_u32(e, 11)),
                 hash_util_right_rotate_u32(e, 25))
      ch == WXor(WAnd(e, f), WAnd(WNot(e), g))
      temp1 == Add(Add(Add(Add(h, s1), ch), ki), wi)
      s0 == WXor(WXor(hash_util_right_rotate_u32(a, 2), hash_util_right_rotate_u32(a, 13)),
                 hash_util_right_rotate_u32(a, 22))
      maj == WXor(WXor(WAnd(a, b), WAnd(a, c)), WAnd(b, c))
      temp2 == Add(s0, maj)
  IN <<Add(temp1, temp2), a, b, c, Add(d, temp1), e, f, g>>

\* the 64-round loop from iteration i on (the test on r makes the evaluation strict)
RECURSIVE sha256_rounds(_, _, _)
sha256_rounds(r, w, i) ==
  IF i = 64 \/ r = <<>> THEN r
  ELSE sha256_rounds(sha256_round(r, sha256_k[i + 1], w[i + 1]), w, i + 1)

\* hash_private_sha256_compress: the chaining words after compressing schedule w
hash_private_sha256_compress(h, w) == AddWords(h, sha256_rounds(h, w, 0))

\* sha256_load without the byte swap of a little-endian host (a fault the known
\* answer must expose)
sha256_load_noswap(buffer, le) ==
  [i \in 1..16 |-> FromMem(SubSeq(buffer, 4 * (i - 1) + 1, 4 * (i - 1) + 4), le)]

\* the first loop of the transform: w[0..15] from the buffer
sha256_load(buffer, le) ==
  [i \in 1..16 |->
     LET c == SubSeq(buffer, 4 * (i - 1) + 1, 4 * (i - 1) + 4)
         wi == FromMem(c, le)
     IN IF le THEN hash_util_swap_endian(wi) ELSE wi]

\* the second loop of the transform from iteration i on: w[16..63]
RECURSIVE sha256_extend(_, _)
sha256_extend(w, i) ==
  IF i = 64 \/ w = <<>> THEN w
  ELSE LET w15 == w[i - 15 + 1]
           w2  == w[i - 2 + 1]
           s0 == WXor(WXor(hash_util_right_rotate_u32(w15, 7), hash_util_right_rotate_u32(w15, 18)),
                      ShR(w15, 3))
           s1 == WXor(WXor(hash_util_right_rotate_u32(w2, 17), hash_util_right_rotate_u32(w2, 19)),
                      ShR(w2, 10))
       IN sha256_extend(Append(w, Add(Add(Add(w[i - 16 + 1], s0), w[i - 7 + 1]), s1)), i + 1)

\* hash_private_sha256_transform; tr logs the blocks handed to the transform
hash_private_sha256_transform(s, le) ==
  [s EXCEPT !.h = hash_private_sha256_compress(s.h, sha256_extend(sha256_load(s.buffer, le), 16)),
            !.tr = Append(@, s.buffer)]

sha256_iv ==
  << W32(\h6a09, \he667), W32(\hbb67, \hae85), W32(\h3c6e, \hf372), W32(\ha54f, \hf53a),
     W32(\h510e, \h527f), W32(\h9b05, \h688c), W32(\h1f83, \hd9ab), W32(\h5be0, \hcd19) >>

\* hash_sha256_init without "s->bitlen = 0" (a fault the re-initialisation property
\* must expose)
hash_sha256_init_keep_bitlen(s) ==
  [s EXCEPT !.bufferSize = 0, !.h = sha256_iv]

\* hash_sha256_init on an engine whose memory holds s (the buffer is not touched)
hash_sha256_init(s) ==
  [s EXCEPT !.bitlen = WordOf(0, 4), !.bufferSize = 0, !.h = sha256_iv]

\* hash_sha256_update_binary with the buffer position restarted at every call (a
\* fault the chunking property must expose)
RECURSIVE hash_sha256_update_binary_restart(_, _, _)
hash_sha256_update_binary_restart(s, data, le) ==
  IF Len(data) < 64
  THEN [s EXCEPT !.buffer = Memcpy(@, 0, data), !.bufferSize = Len(data)]
  ELSE hash_sha256_update_binary_restart(
         [hash_private_sha256_transform([s EXCEPT !.buffer = Memcpy(@, 0, SubSeq(data, 1, 64)),
                                                  !.bufferSize = 64], le)
            EXCEPT !.bufferSize = 0, !.bitlen = Add(@, WordOf(512, 4))],
         SubSeq(data, 64 + 1, Len(data)), le)

\* hash_sha256_update_binary.  The byte loop is taken a run of iterations at a time:
\* the bytes up to the next full buffer are stored, the full buffer is transformed,
\* and the loop goes on with the rest of the input.
RECURSIVE hash_sha256_update_binary(_, _, _)
hash_sha256_update_binary(s, data, le) ==
  IF Len(data) < 64 - s.bufferSize
  THEN [s EXCEPT !.buffer = Memcpy(@, s.bufferSize, data),
                 !.bufferSize = s.bufferSize + Len(data)]
  ELSE hash_sha256_update_binary(
         [hash_private_sha256_transform([s EXCEPT !.buffer = Memcpy(@, s.bufferSize, SubSeq(data, 1, 64 - s.bufferSize)),
                           !.bufferSize = 64], le)
            EXCEPT !.bufferSize = 0, !.bitlen = Add(@, WordOf(512, 4))],
         SubSeq(data, 64 - s.bufferSize + 1, Len(data)), le)

\* hash_sha256_finalize with the test "bufferSize > 56" for the extra block (a fault
\* the transform count must expose)
hash_sha256_finalize_late(s, le) ==
  hash_private_sha256_transform(
    sha_pad_length(
      IF s.bufferSize > 56
      THEN [hash_private_sha256_transform(sha_pad_bytes(s, IF s.bufferSize < 56 THEN 56 ELSE 64), le)
              EXCEPT !.buffer = Memset(@, 0, 0, 56)]
      ELSE sha_pad_bytes(s, IF s.bufferSize < 56 THEN 56 ELSE 64),
      64 - 8, le), le)

\* hash_sha256_finalize up to its last call of the transform
sha256_finalize_pad(s, le) ==
  sha_pad_length(
    IF s.bufferSize >= 56
    THEN [hash_private_sha256_transform(sha_pad_bytes(s, IF s.bufferSize < 56 THEN 56 ELSE 64), le)
            EXCEPT !.buffer = Memset(@, 0, 0, 56)]
    ELSE sha_pad_bytes(s, IF s.bufferSize < 56 THEN 56 ELSE 64),
    64 - 8, le)

hash_sha256_finalize(s, le) ==
  hash_private_sha256_transform(sha256_finalize_pad(s, le), le)

\* hash_sha256_hexdigest into buff (the caller's buffer or the static one)
hash_sha256_hexdigest(s, buff) ==
  LET RECURSIVE loop(_, _)
      loop(b, i) == IF i = 8 THEN b ELSE loop(Sprintf(b, i * 8, s.h[i + 1]), i + 1)
  IN [loop(buff, 0) EXCEPT ![64 + 1] = NUL]

----------------------------------------------------------------------------
(* SHA-512 *)

sha512_k ==
  << W64(\h428a, \h2f98, \hd728, \hae22), W64(\h7137, \h4491, \h23ef, \h65cd),
     W64(\hb5c0, \hfbcf, \hec4d, \h3b2f), W64(\he9b5, \hdba5, \h8189, \hdbbc),
     W64(\h3956, \hc25b, \hf348, \hb538), W64(\h59f1, \h11f1, \hb605, \hd019),
     W64(\h923f, \h82a4, \haf19, \h4f9b), W64(\hab1c, \h5ed5, \hda6d, \h8118),
     W64(\hd807, \haa98, \ha303, \h0242), W64(\h1283, \h5b01, \h4570, \h6fbe),
     W64(\h2431, \h85be, \h4ee4, \hb28c), W64(\h550c, \h7dc3, \hd5ff, \hb4e2),
     W64(\h72be, \h5d74, \hf27b, \h896f), W64(\h80de, \hb1fe, \h3b16, \h96b1),
     W64(\h9bdc, \h06a7, \h25c7, \h1235), W64(\hc19b, \hf174, \hcf69, \h2694),
     W64(\he49b, \h69c1, \h9ef1, \h4ad2), W64(\hefbe, \h4786, \h384f, \h25e3),
     W64(\h0fc1, \h9dc6, \h8b8c, \hd5b5), W64(\h240c, \ha1cc, \h77ac, \h9c65),
     W64(\h2de9, \h2c6f, \h592b, \h0275), W64(\h4a74, \h84aa, \h6ea6, \he483),
     W64(\h5cb0, \ha9dc, \hbd41, \hfbd4), W64(\h76f9, \h88da, \h8311, \h53b5),
     W64(\h983e, \h5152, \hee66, \hdfab), W64(\ha831, \hc66d, \h2db4, \h3210),
     W64(\hb003, \h27c8, \h98fb, \h213f), W64(\hbf59, \h7fc7, \hbeef, \h0ee4),
     W64(\hc6e0, \h0bf3, \h3da8, \h8fc2), W64(\hd5a7, \h9147, \h930a, \ha725),
     W64(\h06ca, \h6351, \he003, \h826f), W64(\h1429, \h2967, \h0a0e, \h6e70),
     W64(\h27b7, \h0a85, \h46d2, \h2ffc), W64(\h2e1b, \h2138, \h5c26, \hc926),
     W64(\h4d2c, \h6dfc, \h5ac4, \h2aed), W64(\h5338, \h0d13, \h9d95, \hb3df),
     W64(\h650a, \h7354, \h8baf, \h63de), W64(\h766a, \h0abb, \h3c77, \hb2a8),
     W64(\h81c2, \hc92e, \h47ed, \haee6), W64(\h9272, \h2c85, \h1482, \h353b),
     W64(\ha2bf, \he8a1, \h4cf1, \h0364), W64(\ha81a, \h664b, \hbc42, \h3001),
     W64(\hc24b, \h8b70, \hd0f8, \h9791), W64(\hc76c, \h51a3, \h0654, \hbe30),
     W64(\hd192, \he819, \hd6ef, \h5218), W64(\hd699, \h0624, \h5565, \ha910),
     W64(\hf40e, \h3585, \h5771, \h202a), W64(\h106a, \ha070, \h32bb, \hd1b8),
     W64(\h19a4, \hc116, \hb8d2, \hd0c8), W64(\h1e37, \h6c08, \h5141, \hab53),
     W64(\h2748, \h774c, \hdf8e, \heb99), W64(\h34b0, \hbcb5, \he19b, \h48a8),
     W64(\h391c, \h0cb3, \hc5c9, \h5a63), W64(\h4ed8, \haa4a, \he341, \h8acb),
     W64(\h5b9c, \hca4f, \h7763, \he373), W64(\h682e, \h6ff3, \hd6b2, \hb8a3),
     W64(\h748f, \h82ee, \h5def, \hb2fc), W64(\h78a5, \h636f, \h4317, \h2f60),
     W64(\h84c8, \h7814, \ha1f0, \hab72), W64(\h8cc7, \h0208, \h1a64, \h39ec),
     W64(\h90be, \hfffa, \h2363, \h1e28), W64(\ha450, \h6ceb, \hde82, \hbde9),
     W64(\hbef9, \ha3f7, \hb2c6, \h7915), W64(\hc671, \h78f2, \he372, \h532b),
     W64(\hca27, \h3ece, \hea26, \h619c), W64(\hd186, \hb8c7, \h21c0, \hc207),
     W64(\heada, \h7dd6, \hcde0, \heb1e), W64(\hf57d, \h4f7f, \hee6e, \hd178),
     W64(\h06f0, \h67aa, \h7217, \h6fba), W64(\h0a63, \h7dc5, \ha2c8, \h98a6),
     W64(\h113f, \h9804, \hbef9, \h0dae), W64(\h1b71, \h0b35, \h131c, \h471b),
     W64(\h28db, \h77f5, \h2304, \h7d84), W64(\h32ca, \hab7b, \h40c7, \h2493),
     W64(\h3c9e, \hbe0a, \h15c9, \hbebc), W64(\h431d, \h67c4, \h9c10, \h0d4c),
     W64(\h4cc5, \hd4be, \hcb3e, \h42b6), W64(\h597f, \h299c, \hfc65, \h7e2a),
     W64(\h5fcb, \h6fab, \h3ad6, \hfaec), W64(\h6c44, \h198c, \h4a47, \h5817) >>

\* one iteration of the 80-round loop on r = <<a, b, c, d, e, f, g, h>>
sha512_round(r, ki, wi) ==
  LET a == r[1]  b == r[2]  c == r[3]  d == r[4]
      e == r[5]  f == r[6]  g == r[7]  h == r[8]
      s1 == WXor(WXor(hash_util_right_rotate_u64(e, 14), hash_util_right_rotate_u64(e, 18)),
                 hash_util_right_rotate_u64(e, 41))
      ch == WXor(WAnd(e, f), WAnd(WNot(e), g))
      temp1 == Add(Add(Add(Add(h, s1), ch), ki), wi)
      s0 == WXor(WXor(hash_util_right_rotate_u64(a, 28), hash_util_right_rotate_u64(a, 34)),
                 hash_util_right_rotate_u64(a, 39))
      maj == WXor(WXor(WAnd(a, b), WAnd(a, c)), WAnd(b, c))
      temp2 == Add(s0, maj)
  IN <<Add(temp1, temp2), a, b, c, Add(d, temp1), e, f, g>>

\* the 80-round loop from iteration i on (the test on r makes the evaluation strict)
RECURSIVE sha512_rounds(_, _, _)
sha512_rounds(r, w, i) ==
  IF i = 80 \/ r = <<>> THEN r
  ELSE sha512_rounds(sha512_round(r, sha512_k[i + 1], w[i + 1]), w, i + 1)

\* hash_private_sha512_compress: the chaining words after compressing schedule w
hash_private_sha512_compress(h, w) == AddWords(h, sha512_rounds(h, w, 0))

\* the first loop of the transform: w[0..15] from the buffer
sha512_load(buffer, le) ==
  [i \in 1..16 |->
     LET c == SubSeq(buffer, 8 * (i - 1) + 1, 8 * (i - 1) + 8)
         wi == FromMem(c, le)
     IN IF le THEN hash_util_swap_endian(wi) ELSE wi]

\* the second loop of the transform from iteration i on: w[16..79]
RECURSIVE sha512_extend(_, _)
sha512_extend(w, i) ==
  IF i = 80 \/ w = <<>> THEN w
  ELSE LET w15 == w[i - 15 + 1]
           w2  == w[i - 2 + 1]
           s0 == WXor(WXor(hash_util_right_rotate_u64(w15, 1), hash_util_right_rotate_u64(w15, 8)),
                      ShR(w15, 7))
           s1 == WXor(WXor(hash_util_right_rotate_u64(w2, 19), hash_util_right_rotate_u64(w2, 61)),
                      ShR(w2, 6))
       IN sha512_extend(Append(w, Add(Add(Add(w[i - 16 + 1], s0), w[i - 7 + 1]), s1)), i + 1)

\* hash_private_sha512_transform; tr logs the blocks handed to the transform
hash_private_sha512_transform(s, le) ==
  [s EXCEPT !.h = hash_private_sha512_compress(s.h, sha512_extend(sha512_load(s.buffer, le), 16)),
            !.tr = Append(@, s.buffer)]

sha512_iv ==
  << W64(\h6a09, \he667, \hf3bc, \hc908), W64(\hbb67, \hae85, \h84ca, \ha73b),
     W64(\h3c6e, \hf372, \hfe94, \hf82b), W64(\ha54f, \hf53a, \h5f1d, \h36f1),
     W64(\h510e, \h527f, \hade6, \h82d1), W64(\h9b05, \h688c, \h2b3e, \h6c1f),
     W64(\h1f83, \hd9ab, \hfb41, \hbd6b), W64(\h5be0, \hcd19, \h137e, \h2179) >>

\* hash_sha512_init on an engine whose memory holds s (the buffer is not touched)
hash_sha512_init(s) ==
  [s EXCEPT !.bitlen = WordOf(0, 4), !.bufferSize = 0, !.h = sha512_iv]

\* hash_sha512_reset clearing the buffer position only (a fault the derivation of
\* the SHA-512/t chaining words must expose)
hash_sha512_reset_position(s) ==
  [s EXCEPT !.bufferSize = 0]

hash_sha512_reset(s) ==
  [s EXCEPT !.bitlen = WordOf(0, 4), !.bufferSize = 0]

\* hash_sha512_update_binary without "s->bitlen += 1024" (a fault the accounting of
\* update must expose)
RECURSIVE hash_sha512_update_binary_uncounted(_, _, _)
hash_sha512_update_binary_uncounted(s, data, le) ==
  IF Len(data) < 128 - s.bufferSize
  THEN [s EXCEPT !.buffer = Memcpy(@, s.bufferSize, data),
                 !.bufferSize = s.bufferSize + Len(data)]
  ELSE hash_sha512_update_binary_uncounted(
         [hash_private_sha512_transform([s EXCEPT !.buffer = Memcpy(@, s.bufferSize, SubSeq(data, 1, 128 - s.bufferSize)),
                           !.bufferSize = 128], le)
            EXCEPT !.bufferSize = 0],
         SubSeq(data, 128 - s.bufferSize + 1, Len(data)), le)

\* hash_sha512_update_binary.  The byte loop is taken a run of iterations at a time:
\* the bytes up to the next full buffer are stored, the full buffer is transformed,
\* and the loop goes on with the rest of the input.
RECURSIVE hash_sha512_update_binary(_, _, _)
hash_sha512_update_binary(s, data, le) ==
  IF Len(data) < 128 - s.bufferSize
  THEN [s EXCEPT !.buffer = Memcpy(@, s.bufferSize, data),
                 !.bufferSize = s.bufferSize + Len(data)]
  ELSE hash_sha512_update_binary(
         [hash_private_sha512_transform([s EXCEPT !.buffer = Memcpy(@, s.bufferSize, SubSeq(data, 1, 128 - s.bufferSize)),
                           !.bufferSize = 128], le)
            EXCEPT !.bufferSize = 0, !.bitlen = Add(@, WordOf(1024, 4))],
         SubSeq(data, 128 - s.bufferSize + 1, Len(data)), le)

\* hash_sha512_finalize zeroing up to byte 112 only, as if the length field were 16
\* bytes wide (a fault the padding layout must expose)
hash_sha512_finalize_short(s, le) ==
  hash_private_sha512_transform(
    sha_pad_length(
      IF s.bufferSize >= 112
      THEN [hash_private_sha512_transform(sha_pad_bytes(s, IF s.bufferSize < 112 THEN 112 ELSE 128), le)
              EXCEPT !.buffer = Memset(@, 0, 0, 112)]
      ELSE sha_pad_bytes(s, IF s.bufferSize < 112 THEN 112 ELSE 128),
      128 - 8, le), le)

\* hash_sha512_finalize up to its last call of the transform
sha512_finalize_pad(s, le) ==
  sha_pad_length(
    IF s.bufferSize >= 112
    THEN [hash_private_sha512_transform(sha_pad_bytes(s, IF s.bufferSize < 112 THEN 120 ELSE 128), le)
            EXCEPT !.buffer = Memset(@, 0, 0, 120)]
    ELSE sha_pad_bytes(s, IF s.bufferSize < 112 THEN 120 ELSE 128),
    128 - 8, le)

hash_sha512_finalize(s, le) ==
  hash_private_sha512_transform(sha512_finalize_pad(s, le), le)

\* hash_sha512_hexdigest into buff (the caller's buffer or the static one)
hash_sha512_hexdigest(s, buff) ==
  LET RECURSIVE loop(_, _)
      loop(b, i) == IF i = 8 THEN b ELSE loop(Sprintf(b, i * 16, s.h[i + 1]), i + 1)
  IN [loop(buff, 0) EXCEPT ![128 + 1] = NUL]

----------------------------------------------------------------------------
(* SHA-512/t *)

\* the chaining words hash_sha512t_init starts from
sha512t_seed ==
  << W64(\hcfac, \h43c2, \h5619, \h6cad), W64(\h1ec2, \h0b20, \h216f, \h029e),
     W64(\h99cb, \h56d7, \h5b31, \h5d8e), W64(\h00ea, \h509f, \hfab8, \h9354),
     W64(\hf4ab, \hf7da, \h0843, \h2774), W64(\h3ea0, \hcd29, \h8e9b, \hc9ba),
     W64(\hba26, \h7c0e, \h5ee4, \h18ce), W64(\hfe45, \h68bc, \hb6db, \h84dc) >>

\* the digits "%u" prints for n
RECURSIVE Decimal(_)
Decimal(n) == IF n < 10 THEN <<n>> ELSE Decimal(n \div 10) \o <<n % 10>>

\* sprintf(str, "SHA-512/%u", (unsigned int)t): the characters before the terminator,
\* as bytes (t is below 2^32 here)
sha512t_label(t) ==
  <<83, 72, 65, 45, 53, 49, 50, 47>> \o [i \in 1..Len(Decimal(t)) |-> 48 + Decimal(t)[i]]

\* the value of a hexadecimal digit
HexVal(c) == (CHOOSE i \in 1..16 : HexChars[i] = c) - 1

\* strtoull(hex, NULL, 16) from character i on, acc being the value read so far:
\* the digits up to the first character that is none
RECURSIVE strtoull(_, _, _)
strtoull(hex, i, acc) ==
  IF i > Len(hex) \/ ~(\E k \in 1..16 : HexChars[k] = hex[i]) THEN acc
  ELSE strtoull(hex, i + 1, Add(ShL(acc, 4), WordOf(HexVal(hex[i]), 4)))

\* the two assert()s of hash_sha512t_init
sha512t_asserts(t) == t # 384 /\ t >= 4 /\ t <= 2048

\* the end of hash_sha512t_init, on the engine s that hashed the label: hexdigest
\* into the stack buffer buff[129], reset, and the chaining words read back with
\* strtoull, 16 digits at a time
sha512t_derive(s) ==
  LET buff == hash_sha512_hexdigest(s, [i \in 1..129 |-> "?"])
  IN [hash_sha512_reset(s) EXCEPT
        !.h = [k \in 1..8 |->
                 strtoull(SubSeq(buff, 16 * (k - 1) + 1, 16 * k) \o <<NUL>>, 1, WordOf(0, 4))]]

\* hash_sha512t_init(s, t) in a build with (ndebug) or without NDEBUG.  aborted says
\* that an assert() ended the process; str is the label that was formatted.
hash_sha512t_init(s, t, ndebug, le) ==
  IF ~ndebug /\ ~sha512t_asserts(t)
  THEN [s |-> s, aborted |-> TRUE, str |-> <<>>]
  ELSE [s |-> sha512t_derive(
                hash_sha512_finalize(
                  hash_sha512_update_binary(
                    [s EXCEPT !.bitlen = WordOf(0, 4), !.bufferSize = 0,
                              !.h = sha512t_seed, !.t = t],
                    sha512t_label(t), le), le)),
        aborted |-> FALSE,
        str |-> sha512t_label(t)]

\* hash_sha512t_update_binary and hash_sha512t_finalize hand over to the SHA-512 engine
hash_sha512t_update_binary(s, data, le) == hash_sha512_update_binary(s, data, le)
hash_sha512t_finalize(s, le) == hash_sha512_finalize(s, le)

\* hash_sha512t_hexdigest on the memory m.buff that starts at buff[0]; m.wr collects
\* the indices written
hash_sha512t_hexdigest(s, m) ==
  LET RECURSIVE loop(_, _)
      loop(b, i) ==
        IF i = 8 THEN b
        ELSE loop([buff |-> Sprintf(b.buff, i * 16, s.h[i + 1]),
                   wr |-> b.wr \cup ((i * 16)..(i * 16 + 16))], i + 1)
      l == loop(m, 0)
  IN [buff |-> [l.buff EXCEPT ![(s.t \div 4) + 1] = NUL], wr |-> l.wr \cup {s.t \div 4}]

----------------------------------------------------------------------------
(* SHA-1 *)

\* f and k of iteration i of the 80-round loop
sha1_f(i, b, c, d) ==
  IF i <= 19 THEN WOr(WAnd(b, c), WAnd(WNot(b), d))
  ELSE IF i >= 20 /\ i <= 39 THEN WXor(WXor(b, c), d)
  ELSE IF i >= 40 /\ i <= 59 THEN WOr(WOr(WAnd(b, c), WAnd(b, d)), WAnd(c, d))
  ELSE WXor(WXor(b, c), d)

sha1_k(i) ==
  IF i <= 19 THEN W32(\h5A82, \h7999)
  ELSE IF i >= 20 /\ i <= 39 THEN W32(\h6ED9, \hEBA1)
  ELSE IF i >= 40 /\ i <= 59 THEN W32(\h8F1B, \hBCDC)
  ELSE W32(\hCA62, \hC1D6)

\* one iteration of the loop on r = <<a, b, c, d, e>>
sha1_round(r, i, wi) ==
  LET a == r[1]  b == r[2]  c == r[3]  d == r[4]  e == r[5]
      tmp == Add(Add(Add(Add(hash_util_left_rotate_u32(a, 5), sha1_f(i, b, c, d)), e),
                     sha1_k(i)), wi)
  IN <<tmp, a, hash_util_left_rotate_u32(b, 30), c, d>>

\* the 80-round loop from iteration i on (the test on r makes the evaluation strict)
RECURSIVE sha1_rounds(_, _, _)
sha1_rounds(r, w, i) ==
  IF i > 79 \/ r = <<>> THEN r
  ELSE sha1_rounds(sha1_round(r, i, w[i + 1]), w, i + 1)

\* the first loop of the transform: w[0..15] from the buffer
sha1_load(buffer, le) ==
  [i \in 1..16 |->
     LET ptr == SubSeq(buffer, 4 * (i - 1) + 1, 4 * (i - 1) + 4)
         wi == FromMem(ptr, le)
     IN IF le THEN hash_util_swap_endian(wi) ELSE wi]

\* the second loop of the transform from iteration i on: w[16..79]
RECURSIVE sha1_extend(_, _)
sha1_extend(w, i) ==
  IF i = 80 \/ w = <<>> THEN w
  ELSE sha1_extend(
         Append(w, hash_util_left_rotate_u32(
                     WXor(WXor(WXor(w[i - 3 + 1], w[i - 8 + 1]), w[i - 14 + 1]), w[i - 16 + 1]), 1)),
         i + 1)

\* hash_private_hash_sha1_transform; tr logs the blocks handed to the transform
hash_private_hash_sha1_transform(s, le) ==
  [s EXCEPT !.h = AddWords(s.h, sha1_rounds(s.h, sha1_extend(sha1_load(s.buffer, le), 16), 0)),
            !.tr = Append(@, s.buffer)]

sha1_iv ==
  << W32(\h6745, \h2301), W32(\hEFCD, \hAB89), W32(\h98BA, \hDCFE), W32(\h1032, \h5476),
     W32(\hC3D2, \hE1F0) >>

hash_sha1_init(s) ==
  [s EXCEPT !.bitlen = WordOf(0, 4), !.bufferSize = 0, !.h = sha1_iv]

\* hash_sha1_update_binary transforming the buffer at the end of every call, full
\* or not (a fault the frame of the chaining words must expose)
RECURSIVE hash_sha1_update_binary_eager(_, _, _)
hash_sha1_update_binary_eager(s, data, le) ==
  IF Len(data) < 64 - s.bufferSize
  THEN hash_private_hash_sha1_transform(
         [s EXCEPT !.buffer = Memcpy(@, s.bufferSize, data),
                   !.bufferSize = s.bufferSize + Len(data)], le)
  ELSE hash_sha1_update_binary_eager(
         [hash_private_hash_sha1_transform([s EXCEPT !.buffer = Memcpy(@, s.bufferSize, SubSeq(data, 1, 64 - s.bufferSize)),
                           !.bufferSize = 64], le)
            EXCEPT !.bufferSize = 0, !.bitlen = Add(@, WordOf(512, 4))],
         SubSeq(data, 64 - s.bufferSize + 1, Len(data)), le)

\* hash_sha1_update_binary, the byte loop taken a run of iterations at a time
RECURSIVE hash_sha1_update_binary(_, _, _)
hash_sha1_update_binary(s, data, le) ==
  IF Len(data) < 64 - s.bufferSize
  THEN [s EXCEPT !.buffer = Memcpy(@, s.bufferSize, data),
                 !.bufferSize = s.bufferSize + Len(data)]
  ELSE hash_sha1_update_binary(
         [hash_private_hash_sha1_transform([s EXCEPT !.buffer = Memcpy(@, s.bufferSize, SubSeq(data, 1, 64 - s.bufferSize)),
                           !.bufferSize = 64], le)
            EXCEPT !.bufferSize = 0, !.bitlen = Add(@, WordOf(512, 4))],
         SubSeq(data, 64 - s.bufferSize + 1, Len(data)), le)

\* hash_sha1_finalize leaving s->bitlen as it was (a fault the property of the
\* second finalize must expose)
hash_sha1_finalize_uncounted(s, le) ==
  hash_private_hash_sha1_transform(
    [sha_pad_length(
       IF s.bufferSize >= 56
       THEN [hash_private_hash_sha1_transform(sha_pad_bytes(s, IF s.bufferSize < 56 THEN 56 ELSE 64), le)
               EXCEPT !.buffer = Memset(@, 0, 0, 56)]
       ELSE sha_pad_bytes(s, IF s.bufferSize < 56 THEN 56 ELSE 64),
       64 - 8, le) EXCEPT !.bitlen = s.bitlen], le)

hash_sha1_finalize(s, le) ==
  hash_private_hash_sha1_transform(
    sha_pad_length(
      IF s.bufferSize >= 56
      THEN [hash_private_hash_sha1_transform(sha_pad_bytes(s, IF s.bufferSize < 56 THEN 56 ELSE 64), le)
              EXCEPT !.buffer = Memset(@, 0, 0, 56)]
      ELSE sha_pad_bytes(s, IF s.bufferSize < 56 THEN 56 ELSE 64),
      64 - 8, le), le)

\* hash_sha1_hexdigest into buff (the caller's buffer or the static one)
hash_sha1_hexdigest(s, buff) ==
  LET RECURSIVE loop(_, _)
      loop(b, i) == IF i = 5 THEN b ELSE loop(Sprintf(b, i * 8, s.h[i + 1]), i + 1)
  IN [loop(buff, 0) EXCEPT ![40 + 1] = NUL]

----------------------------------------------------------------------------
(* MD5 *)

hash_private_md5_F(x, y, z) == WOr(WAnd(x, y), WAnd(WNot(x), z))
hash_private_md5_G(x, y, z) == WOr(WAnd(x, z), WAnd(y, WNot(z)))
hash_private_md5_H(x, y, z) == WXor(WXor(x, y), z)
hash_private_md5_I(x, y, z) == WXor(y, WOr(x, WNot(z)))

hash_private_md5_rotate_left(x, n) == RotR(x, 32 - n)

\* hash_private_md5_FF, _GG, _HH, _II: fn names the basic function
hash_private_md5_XX(fn, a, b, c, d, x, sh, ac) ==
  LET f == IF fn = "FF" THEN hash_private_md5_F(b, c, d)
           ELSE IF fn = "GG" THEN hash_private_md5_G(b, c, d)
           ELSE IF fn = "HH" THEN hash_private_md5_H(b, c, d)
           ELSE hash_private_md5_I(b, c, d)
  IN Add(hash_private_md5_rotate_left(Add(Add(Add(a, f), x), ac), sh), b)

\* hash_private_md5_decode: len bytes of input, 4 per word, least significant first
hash_private_md5_decode(input, len) ==
  [i \in 1..(len \div 4) |->
     LET j == 4 * (i - 1) + 1
     IN <<input[j + 3] * 256 + input[j + 2], input[j + 1] * 256 + input[j]>>]

\* hash_private_md5_encode: len bytes from the words of input, least significant first
hash_private_md5_encode(input, len) ==
  [j \in 1..len |->
     LET w == input[((j - 1) \div 4) + 1]
         k == (j - 1) % 4
     IN IF k = 0 THEN w[2] % 256
        ELSE IF k = 1 THEN w[2] \div 256
        ELSE IF k = 2 THEN w[1] % 256
        ELSE w[1] \div 256]

\* the 64 steps of hash_private_md5_transform, in order: the basic function, the four
\* registers in argument order (1 = a, 2 = b, 3 = c, 4 = d; the first is the one
\* assigned), the index into x, the shift and the additive constant
md5_steps ==
  << <<"FF", 1, 2, 3, 4, 0, 7, W32(\hd76a, \ha478)>>, <<"FF", 4, 1, 2, 3, 1, 12, W32(\he8c7, \hb756)>>,
     <<"FF", 3, 4, 1, 2, 2, 17, W32(\h2420, \h70db)>>, <<"FF", 2, 3, 4, 1, 3, 22, W32(\hc1bd, \hceee)>>,
     <<"FF", 1, 2, 3, 4, 4, 7, W32(\hf57c, \h0faf)>>, <<"FF", 4, 1, 2, 3, 5, 12, W32(\h4787, \hc62a)>>,
     <<"FF", 3, 4, 1, 2, 6, 17, W32(\ha830, \h4613)>>, <<"FF", 2, 3, 4, 1, 7, 22, W32(\hfd46, \h9501)>>,
     <<"FF", 1, 2, 3, 4, 8, 7, W32(\h6980, \h98d8)>>, <<"FF", 4, 1, 2, 3, 9, 12, W32(\h8b44, \hf7af)>>,
     <<"FF", 3, 4, 1, 2, 10, 17, W32(\hffff, \h5bb1)>>, <<"FF", 2, 3, 4, 1, 11, 22, W32(\h895c, \hd7be)>>,
     <<"FF", 1, 2, 3, 4, 12, 7, W32(\h6b90, \h1122)>>, <<"FF", 4, 1, 2, 3, 13, 12, W32(\hfd98, \h7193)>>,
     <<"FF", 3, 4, 1, 2, 14, 17, W32(\ha679, \h438e)>>, <<"FF", 2, 3, 4, 1, 15, 22, W32(\h49b4, \h0821)>>,
     <<"GG", 1, 2, 3, 4, 1, 5, W32(\hf61e, \h2562)>>, <<"GG", 4, 1, 2, 3, 6, 9, W32(\hc040, \hb340)>>,
     <<"GG", 3, 4, 1, 2, 11, 14, W32(\h265e, \h5a51)>>, <<"GG", 2, 3, 4, 1, 0, 20, W32(\he9b6, \hc7aa)>>,
     <<"GG", 1, 2, 3, 4, 5, 5, W32(\hd62f, \h105d)>>, <<"GG", 4, 1, 2, 3, 10, 9, W32(\h0244, \h1453)>>,
     <<"GG", 3, 4, 1, 2, 15, 14, W32(\hd8a1, \he681)>>, <<"GG", 2, 3, 4, 1, 4, 20, W32(\he7d3, \hfbc8)>>,
     <<"GG", 1, 2, 3, 4, 9, 5, W32(\h21e1, \hcde6)>>, <<"GG", 4, 1, 2, 3, 14, 9, W32(\hc337, \h07d6)>>,
     <<"GG", 3, 4, 1, 2, 3, 14, W32(\hf4d5, \h0d87)>>, <<"GG", 2, 3, 4, 1, 8, 20, W32(\h455a, \h14ed)>>,
     <<"GG", 1, 2, 3, 4, 13, 5, W32(\ha9e3, \he905)>>, <<"GG", 4, 1, 2, 3, 2, 9, W32(\hfcef, \ha3f8)>>,
     <<"GG", 3, 4, 1, 2, 7, 14, W32(\h676f, \h02d9)>>, <<"GG", 2, 3, 4, 1, 12, 20, W32(\h8d2a, \h4c8a)>>,
     <<"HH", 1, 2, 3, 4, 5, 4, W32(\hfffa, \h3942)>>, <<"HH", 4, 1, 2, 3, 8, 11, W32(\h8771, \hf681)>>,
     <<"HH", 3, 4, 1, 2, 11, 16, W32(\h6d9d, \h6122)>>, <<"HH", 2, 3, 4, 1, 14, 23, W32(\hfde5, \h380c)>>,
     <<"HH", 1, 2, 3, 4, 1, 4, W32(\ha4be, \hea44)>>, <<"HH", 4, 1, 2, 3, 4, 11, W32(\h4bde, \hcfa9)>>,
     <<"HH", 3, 4, 1, 2, 7, 16, W32(\hf6bb, \h4b60)>>, <<"HH", 2, 3, 4, 1, 10, 23, W32(\hbebf, \hbc70)>>,
     <<"HH", 1, 2, 3, 4, 13, 4, W32(\h289b, \h7ec6)>>, <<"HH", 4, 1, 2, 3, 0, 11, W32(\heaa1, \h27fa)>>,
     <<"HH", 3, 4, 1, 2, 3, 16, W32(\hd4ef, \h3085)>>, <<"HH", 2, 3, 4, 1, 6, 23, W32(\h0488, \h1d05)>>,
     <<"HH", 1, 2, 3, 4, 9, 4, W32(\hd9d4, \hd039)>>, <<"HH", 4, 1, 2, 3, 12, 11, W32(\he6db, \h99e5)>>,
     <<"HH", 3, 4, 1, 2, 15, 16, W32(\h1fa2, \h7cf8)>>, <<"HH", 2, 3, 4, 1, 2, 23, W32(\hc4ac, \h5665)>>,
     <<"II", 1, 2, 3, 4, 0, 6, W32(\hf429, \h2244)>>, <<"II", 4, 1, 2, 3, 7, 10, W32(\h432a, \hff97)>>,
     <<"II", 3, 4, 1, 2, 14, 15, W32(\hab94, \h23a7)>>, <<"II", 2, 3, 4, 1, 5, 21, W32(\hfc93, \ha039)>>,
     <<"II", 1, 2, 3, 4, 12, 6, W32(\h655b, \h59c3)>>, <<"II", 4, 1, 2, 3, 3, 10, W32(\h8f0c, \hcc92)>>,
     <<"II", 3, 4, 1, 2, 10, 15, W32(\hffef, \hf47d)>>, <<"II", 2, 3, 4, 1, 1, 21, W32(\h8584, \h5dd1)>>,
     <<"II", 1, 2, 3, 4, 8, 6, W32(\h6fa8, \h7e4f)>>, <<"II", 4, 1, 2, 3, 15, 10, W32(\hfe2c, \he6e0)>>,
     <<"II", 3, 4, 1, 2, 6, 15, W32(\ha301, \h4314)>>, <<"II", 2, 3, 4, 1, 13, 21, W32(\h4e08, \h11a1)>>,
     <<"II", 1, 2, 3, 4, 4, 6, W32(\hf753, \h7e82)>>, <<"II", 4, 1, 2, 3, 11, 10, W32(\hbd3a, \hf235)>>,
     <<"II", 3, 4, 1, 2, 2, 15, W32(\h2ad7, \hd2bb)>>, <<"II", 2, 3, 4, 1, 9, 21, W32(\heb86, \hd391)>> >>

\* the steps from step i on, on r = <<a, b, c, d>> (the test on r makes the evaluation strict)
RECURSIVE md5_run(_, _, _)
md5_run(r, x, i) ==
  IF i > 64 \/ r = <<>> THEN r
  ELSE LET st == md5_steps[i]
           v == hash_private_md5_XX(st[1], r[st[2]], r[st[3]], r[st[4]], r[st[5]],
                                    x[st[6] + 1], st[7], st[8])
       IN md5_run([r EXCEPT ![st[2]] = v], x, i + 1)

\* hash_private_md5_transform(m, block); tr logs the blocks handed to the transform
hash_private_md5_transform(m, block) ==
  [m EXCEPT !.state = AddWords(m.state, md5_run(m.state, hash_private_md5_decode(block, 64), 1)),
            !.tr = Append(@, block)]

\* a < b on words
RECURSIVE WLess(_, _, _)
WLess(a, b, i) ==
  IF i > Len(a) THEN FALSE
  ELSE IF a[i] # b[i] THEN a[i] < b[i]
  ELSE WLess(a, b, i + 1)

\* the loop "for (i = firstpart; i + 64 <= s; i += 64) transform(m, &input[i])":
\* the engine and i when the loop ends
RECURSIVE md5_bulk(_, _, _, _)
md5_bulk(m, input, i, n) ==
  IF i + 64 <= n
  THEN md5_bulk(hash_private_md5_transform(m, SubSeq(input, i + 1, i + 64)), input, i + 64, n)
  ELSE <<m, i>>

\* the bytes waiting in the buffer: count[0] / 8 % 64
md5_index(m) == (m.count[1][2] \div 8) % 64

\* the memcpy that ends update: e is the engine and the position in input that
\* the transforms left, index the place in the buffer
md5_rest(e, input, n, index) ==
  [e[1] EXCEPT !.buffer = Memcpy(@, index, SubSeq(input, e[2] + 1, n))]

\* hash_private_md5_update_binary without "index = 0" after the transforms (a fault
\* the chunking property must expose)
hash_private_md5_update_binary_keep(m, input, size) ==
  LET s == <<size[3], size[4]>>
      n == ValueOf(s)
      index == md5_index(m)
      s3 == ShL(s, 3)
      c0 == Add(m.count[1], s3)
      c1 == IF WLess(c0, s3, 1) THEN Add(m.count[2], WordOf(1, 2)) ELSE m.count[2]
      m1 == [m EXCEPT !.count = <<c0, Add(c1, ShR(s, 29))>>]
      firstpart == 64 - index
      full == Memcpy(m.buffer, index, SubSeq(input, 1, firstpart))
  IN IF n >= firstpart
     THEN md5_rest(md5_bulk(hash_private_md5_transform([m1 EXCEPT !.buffer = full], full),
                            input, firstpart, n),
                   input, n, index)
     ELSE [m1 EXCEPT !.buffer = Memcpy(@, index, SubSeq(input, 1, n))]

\* hash_private_md5_update_binary(m, input, size): size is the size_t argument as a
\* 64-bit word, input the bytes at the pointer; s = (uint32_t)size is below 2^31 here
hash_private_md5_update_binary(m, input, size) ==
  LET s == <<size[3], size[4]>>
      n == ValueOf(s)
      index == md5_index(m)
      s3 == ShL(s, 3)
      c0 == Add(m.count[1], s3)
      c1 == IF WLess(c0, s3, 1) THEN Add(m.count[2], WordOf(1, 2)) ELSE m.count[2]
      m1 == [m EXCEPT !.count = <<c0, Add(c1, ShR(s, 29))>>]
      firstpart == 64 - index
      full == Memcpy(m.buffer, index, SubSeq(input, 1, firstpart))
  IN IF n >= firstpart
     THEN md5_rest(md5_bulk(hash_private_md5_transform([m1 EXCEPT !.buffer = full], full),
                            input, firstpart, n),
                   input, n, 0)
     ELSE [m1 EXCEPT !.buffer = Memcpy(@, index, SubSeq(input, 1, n))]

md5_iv ==
  << W32(\h6745, \h2301), W32(\hefcd, \hab89), W32(\h98ba, \hdcfe), W32(\h1032, \h5476) >>

hash_md5_init(m) ==
  [m EXCEPT !.finalized = 0, !.count = <<WordOf(0, 2), WordOf(0, 2)>>, !.state = md5_iv]

\* hash_md5_update_binary that also stores the state in the digest (a fault the
\* frozen digest property must expose)
md5_live(m) == [m EXCEPT !.digest = hash_private_md5_encode(m.state, 16)]
hash_md5_update_binary_live(m, data) ==
  md5_live(hash_private_md5_update_binary(m, data, WordOf(Len(data), 4)))

\* hash_md5_update_binary(m, data, size) with size = Len(data)
hash_md5_update_binary(m, data) ==
  hash_private_md5_update_binary(m, data, WordOf(Len(data), 4))

md5_padding == [i \in 1..64 |-> IF i = 1 THEN 128 ELSE 0]

\* the end of finalize, on the engine m that took the padding and the length
md5_store(m) ==
  [m EXCEPT !.digest = hash_private_md5_encode(m.state, 16),
            !.buffer = Memset(@, 0, 0, 64),
            !.count = <<WordOf(0, 2), WordOf(0, 2)>>,
            !.finalized = 1]

\* hash_md5_finalize without the test of m->finalized (a fault the idempotence
\* property must expose)
hash_md5_finalize_again(m) ==
  LET index == md5_index(m)
      padLen == IF index < 56 THEN 56 - index ELSE 120 - index
  IN md5_store(
       hash_private_md5_update_binary(
         hash_private_md5_update_binary(m, SubSeq(md5_padding, 1, padLen), WordOf(padLen, 4)),
         hash_private_md5_encode(m.count, 8), WordOf(8, 4)))

hash_md5_finalize(m) ==
  IF m.finalized = 0
  THEN LET index == md5_index(m)
           padLen == IF index < 56 THEN 56 - index ELSE 120 - index
       IN md5_store(
            hash_private_md5_update_binary(
              hash_private_md5_update_binary(m, SubSeq(md5_padding, 1, padLen), WordOf(padLen, 4)),
              hash_private_md5_encode(m.count, 8), WordOf(8, 4)))
  ELSE m

HexByte(b) == <<HexChars[(b \div 16) + 1], HexChars[(b % 16) + 1]>>

\* hash_md5_hexdigest: the empty string, or the digest written to buff
hash_md5_hexdigest(m, buff) ==
  IF m.finalized = 0 THEN <<NUL>>
  ELSE LET RECURSIVE loop(_, _)
           loop(b, i) == IF i = 16 THEN b
                         ELSE loop(Memcpy(b, i * 2, HexByte(m.digest[i + 1]) \o <<NUL>>), i + 1)
       IN [loop(buff, 0) EXCEPT ![32 + 1] = NUL]

----------------------------------------------------------------------------
(* SHA-224 and SHA-384 *)

\* hash_sha224_init on an engine whose memory holds s (the buffer is not touched)
hash_sha224_init(s) ==
  [s EXCEPT !.bitlen = WordOf(0, 4), !.bufferSize = 0,
            !.h = << W32(\hc105, \h9ed8), W32(\h367c, \hd507), W32(\h3070, \hdd17),
                     W32(\hf70e, \h5939), W32(\hffc0, \h0b31), W32(\h6858, \h1511),
                     W32(\h64f9, \h8fa7), W32(\hbefa, \h4fa4) >>]

hash_sha224_update_binary(s, data, le) == hash_sha256_update_binary(s, data, le)

hash_sha224_finalize(s, le) == hash_sha256_finalize(s, le)

\* hash_sha224_hexdigest printing the words from h[1] on (a fault the prefix
\* property must expose)
hash_sha224_hexdigest_shifted(s, buff) ==
  LET RECURSIVE loop(_, _)
      loop(b, i) == IF i = 7 THEN b ELSE loop(Sprintf(b, i * 8, s.h[i + 2]), i + 1)
  IN [loop(buff, 0) EXCEPT ![56 + 1] = NUL]

\* hash_sha224_hexdigest into buff (the caller's buffer or the static one)
hash_sha224_hexdigest(s, buff) ==
  LET RECURSIVE loop(_, _)
      loop(b, i) == IF i = 7 THEN b ELSE loop(Sprintf(b, i * 8, s.h[i + 1]), i + 1)
  IN [loop(buff, 0) EXCEPT ![56 + 1] = NUL]

\* hash_sha384_init on an engine whose memory holds s (the buffer is not touched)
hash_sha384_init(s) ==
  [s EXCEPT !.bitlen = WordOf(0, 4), !.bufferSize = 0,
            !.h = << W64(\hcbbb, \h9d5d, \hc105, \h9ed8), W64(\h629a, \h292a, \h367c, \hd507),
                     W64(\h9159, \h015a, \h3070, \hdd17), W64(\h152f, \hecd8, \hf70e, \h5939),
                     W64(\h6733, \h2667, \hffc0, \h0b31), W64(\h8eb4, \h4a87, \h6858, \h1511),
                     W64(\hdb0c, \h2e0d, \h64f9, \h8fa7), W64(\h47b5, \h481d, \hbefa, \h4fa4) >>]

hash_sha384_update_binary(s, data, le) == hash_sha512_update_binary(s, data, le)

hash_sha384_finalize(s, le) == hash_sha512_finalize(s, le)

\* hash_sha384_hexdigest into buff (the caller's buffer or the static one)
hash_sha384_hexdigest(s, buff) ==
  LET RECURSIVE loop(_, _)
      loop(b, i) == IF i = 6 THEN b ELSE loop(Sprintf(b, i * 16, s.h[i + 1]), i + 1)
  IN [loop(buff, 0) EXCEPT ![96 + 1] = NUL]

----------------------------------------------------------------------------
(* Keccak: the permutation Keccak-f[1600] and the sponge *)

\* a function over 1..n as the array it stands for, every element computed once
Array(f) == f \o <<>>

\* a ^ b for bytes
XorByte(a, b) == XorT[a + 1][b + 1]

\* HASH_PRIVATE_KECCAK_ROL64(a, offset), 0 < offset < 64
HASH_PRIVATE_KECCAK_ROL64(a, offset) == WXor(ShL(a, offset), ShR(a, 64 - offset))

\* the 25 lanes of state[200] read through (uint64_t*)state, lane x + 5 * y at
\* place x + 5 * y + 1, and the bytes of 25 lanes written through that pointer
HASH_PRIVATE_KECCAK_READLANE(state, le) ==
  Array([i \in 1..25 |-> FromMem(SubSeq(state, 8 * i - 7, 8 * i), le)])
hash_private_keccak_WRITELANE(A, le) ==
  Array([k \in 1..200 |-> ToMem(A[((k - 1) \div 8) + 1], le)[((k - 1) % 8) + 1]])

\* hash_private_keccak_LFSR86540: the bit returned and the new *LFSR
hash_private_keccak_LFSR86540(LFSR) ==
  <<LFSR % 2, IF LFSR >= 128 THEN XorByte((LFSR * 2) % 256, 113) ELSE LFSR * 2>>

\* the step theta: C is the parity of the columns, and D of column x is
\* C[(x + 4) % 5] ^ ROL64(C[(x + 1) % 5], 1)
keccak_theta_C(A) ==
  Array([x \in 1..5 |-> WXor(WXor(WXor(WXor(A[x], A[x + 5]), A[x + 10]), A[x + 15]), A[x + 20])])
keccak_theta(A, C) ==
  Array([i \in 1..25 |->
           WXor(A[i], WXor(C[((i + 3) % 5) + 1],
                           HASH_PRIVATE_KECCAK_ROL64(C[(i % 5) + 1], 1)))])

\* one iteration of the loop over t of the steps rho and pi with the lane read
\* after it was written (a fault the lane walk property must expose)
keccak_rho_pi_step_late(r) ==
  [A |-> [r.A EXCEPT ![r.y + 5 * ((2 * r.x + 3 * r.y) % 5) + 1] =
            HASH_PRIVATE_KECCAK_ROL64(r.current, (((r.t + 1) * (r.t + 2)) \div 2) % 64)],
   x |-> r.y,
   y |-> (2 * r.x + 3 * r.y) % 5,
   current |-> HASH_PRIVATE_KECCAK_ROL64(r.current, (((r.t + 1) * (r.t + 2)) \div 2) % 64),
   t |-> r.t + 1]

\* the steps rho and pi, one iteration of the loop over t on r = [A, x, y,
\* current, t]: the lane at the new (x, y) is read, then written
keccak_rho_pi_step(r) ==
  [A |-> [r.A EXCEPT ![r.y + 5 * ((2 * r.x + 3 * r.y) % 5) + 1] =
            HASH_PRIVATE_KECCAK_ROL64(r.current, (((r.t + 1) * (r.t + 2)) \div 2) % 64)],
   x |-> r.y,
   y |-> (2 * r.x + 3 * r.y) % 5,
   current |-> r.A[r.y + 5 * ((2 * r.x + 3 * r.y) % 5) + 1],
   t |-> r.t + 1]

\* the steps rho and pi: the loop over t
RECURSIVE keccak_rho_pi(_)
keccak_rho_pi(r) ==
  IF r.t = 24 THEN r.A ELSE keccak_rho_pi(keccak_rho_pi_step(r))

\* the steps rho and pi from the lane at (1, 0)
keccak_rho_pi_start(A) == keccak_rho_pi([A |-> A, x |-> 1, y |-> 0, current |-> A[2], t |-> 0])

\* the step chi, plane by plane
keccak_chi(A) ==
  Array([i \in 1..25 |->
           WXor(A[i], WAnd(WNot(A[5 * ((i - 1) \div 5) + (i % 5) + 1]),
                           A[5 * ((i - 1) \div 5) + ((i + 1) % 5) + 1]))])

\* the step iota: the loop over j, on the lanes and LFSRstate; gives both
RECURSIVE keccak_iota(_, _, _)
keccak_iota(A, LFSRstate, j) ==
  IF j = 7 THEN <<A, LFSRstate>>
  ELSE keccak_iota(
         IF hash_private_keccak_LFSR86540(LFSRstate)[1] = 1
         THEN [A EXCEPT ![1] = WXor(@, ShL(<<0, 0, 0, 1>>, P2(j) - 1))]
         ELSE A,
         hash_private_keccak_LFSR86540(LFSRstate)[2], j + 1)

\* one round on the lanes A with LFSRstate; gives both
keccak_round(A, LFSRstate) ==
  keccak_iota(keccak_chi(keccak_rho_pi_start(keccak_theta(A, keccak_theta_C(A)))), LFSRstate, 0)

\* the rounds from round on, on st = <<lanes, LFSRstate>> (the test of st[2] has
\* each round computed before the next one starts)
RECURSIVE keccak_rounds(_, _)
keccak_rounds(st, round) ==
  IF round = 24 \/ st[2] > 255 THEN st[1]
  ELSE keccak_rounds(keccak_round(st[1], st[2]), round + 1)

\* hash_private_keccak_KeccakF1600_StatePermute on the 200 bytes of state; the
\* element after them is not memory of the program: it counts the permutations
\* run on the state since the memset
hash_private_keccak_KeccakF1600_StatePermute(state, le) ==
  hash_private_keccak_WRITELANE(keccak_rounds(<<HASH_PRIVATE_KECCAK_READLANE(state, le), 1>>, 0), le)
    \o <<state[201] + 1>>

HASH_PRIVATE_KECCAK_MIN(a, b) == IF a < b THEN a ELSE b

\* one iteration of the absorbing loop on k = [state, at, inputByteLen, blockSize],
\* at the bytes of input consumed so far
keccak_absorb_step(k, input, rateInBytes, le) ==
  [state |->
     IF HASH_PRIVATE_KECCAK_MIN(k.inputByteLen, rateInBytes) = rateInBytes
     THEN hash_private_keccak_KeccakF1600_StatePermute(
            Array([i \in 1..201 |->
                     IF i <= rateInBytes THEN XorByte(k.state[i], input[k.at + i])
                     ELSE k.state[i]]), le)
     ELSE Array([i \in 1..201 |->
                   IF i <= k.inputByteLen THEN XorByte(k.state[i], input[k.at + i])
                   ELSE k.state[i]]),
   at |-> k.at + HASH_PRIVATE_KECCAK_MIN(k.inputByteLen, rateInBytes),
   inputByteLen |-> k.inputByteLen - HASH_PRIVATE_KECCAK_MIN(k.inputByteLen, rateInBytes),
   blockSize |-> IF HASH_PRIVATE_KECCAK_MIN(k.inputByteLen, rateInBytes) = rateInBytes
                 THEN 0 ELSE k.inputByteLen]

\* the absorbing loop: k when it ends
RECURSIVE keccak_absorb(_, _, _, _)
keccak_absorb(k, input, rateInBytes, le) ==
  IF k.inputByteLen = 0 THEN k
  ELSE keccak_absorb(keccak_absorb_step(k, input, rateInBytes, le), input, rateInBytes, le)

\* the padding with the second bit of it left out (a fault the padding property
\* must expose)
keccak_pad_open(k, rateInBytes, delimitedSuffix, le) ==
  hash_private_keccak_KeccakF1600_StatePermute(
    IF delimitedSuffix >= 128 /\ k.blockSize = rateInBytes - 1
    THEN hash_private_keccak_KeccakF1600_StatePermute(
           [k.state EXCEPT ![k.blockSize + 1] = XorByte(@, delimitedSuffix)], le)
    ELSE [k.state EXCEPT ![k.blockSize + 1] = XorByte(@, delimitedSuffix)], le)

\* the padding, on k as the absorbing loop left it, and the switch to the
\* squeezing phase (rateInBytes > 0): the state
keccak_pad(k, rateInBytes, delimitedSuffix, le) ==
  hash_private_keccak_KeccakF1600_StatePermute(
    [(IF delimitedSuffix >= 128 /\ k.blockSize = rateInBytes - 1
      THEN hash_private_keccak_KeccakF1600_StatePermute(
             [k.state EXCEPT ![k.blockSize + 1] = XorByte(@, delimitedSuffix)], le)
      ELSE [k.state EXCEPT ![k.blockSize + 1] = XorByte(@, delimitedSuffix)])
       EXCEPT ![rateInBytes] = XorByte(@, 128)], le)

\* one iteration of the squeezing loop with a permutation after every block, the
\* last one too (a fault the squeezing property must expose)
keccak_squeeze_step_eager(q, rateInBytes, le) ==
  [state |-> hash_private_keccak_KeccakF1600_StatePermute(q.state, le),
   output |-> Memcpy(q.output, q.off,
                     SubSeq(q.state, 1, HASH_PRIVATE_KECCAK_MIN(q.outputByteLen, rateInBytes))),
   off |-> q.off + HASH_PRIVATE_KECCAK_MIN(q.outputByteLen, rateInBytes),
   outputByteLen |-> q.outputByteLen - HASH_PRIVATE_KECCAK_MIN(q.outputByteLen, rateInBytes)]

\* one iteration of the squeezing loop on q = [state, output, off, outputByteLen],
\* off the bytes written so far
keccak_squeeze_step(q, rateInBytes, le) ==
  [state |-> IF q.outputByteLen - HASH_PRIVATE_KECCAK_MIN(q.outputByteLen, rateInBytes) > 0
             THEN hash_private_keccak_KeccakF1600_StatePermute(q.state, le)
             ELSE q.state,
   output |-> Memcpy(q.output, q.off,
                     SubSeq(q.state, 1, HASH_PRIVATE_KECCAK_MIN(q.outputByteLen, rateInBytes))),
   off |-> q.off + HASH_PRIVATE_KECCAK_MIN(q.outputByteLen, rateInBytes),
   outputByteLen |-> q.outputByteLen - HASH_PRIVATE_KECCAK_MIN(q.outputByteLen, rateInBytes)]

\* the squeezing loop with a last block taken from the end of the rate bytes (a
\* fault the prefix property must expose)
RECURSIVE keccak_squeeze_tail(_, _, _, _, _, _)
keccak_squeeze_tail(state, output, off, outputByteLen, rateInBytes, le) ==
  IF outputByteLen = 0 THEN output
  ELSE IF outputByteLen > rateInBytes
  THEN keccak_squeeze_tail(hash_private_keccak_KeccakF1600_StatePermute(state, le),
                           Memcpy(output, off, SubSeq(state, 1, rateInBytes)),
                           off + rateInBytes, outputByteLen - rateInBytes, rateInBytes, le)
  ELSE Memcpy(output, off, SubSeq(state, rateInBytes - outputByteLen + 1, rateInBytes))

\* the squeezing loop: q when it ends
RECURSIVE keccak_squeeze_loop(_, _, _)
keccak_squeeze_loop(q, rateInBytes, le) ==
  IF q.outputByteLen = 0 THEN q
  ELSE keccak_squeeze_loop(keccak_squeeze_step(q, rateInBytes, le), rateInBytes, le)

\* the squeezing loop: output after the loop, off bytes written so far
keccak_squeeze(state, output, off, outputByteLen, rateInBytes, le) ==
  keccak_squeeze_loop([state |-> state, output |-> output, off |-> off,
                       outputByteLen |-> outputByteLen], rateInBytes, le).output

\* the state after memset(state, 0, sizeof(state)), no permutation counted
keccak_memset == Array([i \in 1..201 |-> 0])

\* hash_private_keccak_Keccak with inputByteLen = Len(input): the bytes at output
\* when it returns
hash_private_keccak_Keccak(rate, capacity, input, delimitedSuffix, output, outputByteLen, le) ==
  IF rate + capacity # 1600 \/ rate % 8 # 0 THEN output
  ELSE keccak_squeeze(
         keccak_pad(keccak_absorb([state |-> keccak_memset, at |-> 0,
                                   inputByteLen |-> Len(input), blockSize |-> 0],
                                  input, rate \div 8, le),
                    rate \div 8, delimitedSuffix, le),
         output, 0, outputByteLen, rate \div 8, le)

----------------------------------------------------------------------------
(* SHAKE128 and SHAKE256: the entry points *)

HASH_SHAKE_128_MALLOC_LIMIT == 64
HASH_SHAKE_256_MALLOC_LIMIT == 64

\* Hash::Util::CharArrayToHexString(data, size): two digits for each of the size
\* bytes at data
Util_CharArrayToHexString(data, size) ==
  Array([k \in 1..(2 * size) |-> HexByte(data[(k + 1) \div 2])[2 - (k % 2)]])

\* hash_util_char_array_to_hex_string(data, size, &out[off]): the same digits, and
\* the terminating NUL
hash_util_char_array_to_hex_string(data, size, out, off) ==
  Memcpy(out, off, Util_CharArrayToHexString(data, size) \o <<NUL>>)

\* the string at &buff[off]
StringAt(buff, off) == SubSeq(buff, off + 1, CStrLen(buff, off + 1))

\* the end of hash_shake128_binary and hash_shake256_binary, called with buffer ==
\* NULL, on the bytes buff holds when the sponge returns: above the limit buff is
\* the heap block tmp and out is &tmp[outsizeBytes], up to the limit out is hex
shake_render(buff, outsizeBytes, limit) ==
  IF outsizeBytes > limit
  THEN StringAt(hash_util_char_array_to_hex_string(buff, outsizeBytes \div 2, buff, outsizeBytes),
                outsizeBytes)
  ELSE StringAt(hash_util_char_array_to_hex_string(buff, outsizeBytes \div 2, Chars(limit + 1), 0),
                0)

\* hash_shake128_binary(data, size, outsizeBytes, NULL) with size = Len(data): the
\* string returned.  buff is the heap block of outsizeBytes * 3 + 1 bytes (malloc is
\* taken to succeed) or the static intBuff.
hash_shake128_binary(data, outsizeBytes, le) ==
  shake_render(
    hash_private_keccak_Keccak(
      1344, 256, data, 31,
      IF outsizeBytes > HASH_SHAKE_128_MALLOC_LIMIT
      THEN [i \in 1..(outsizeBytes * 3 + 1) |-> Junk]
      ELSE [i \in 1..(HASH_SHAKE_128_MALLOC_LIMIT \div 2) |-> 0],
      outsizeBytes \div 2, le),
    outsizeBytes, HASH_SHAKE_128_MALLOC_LIMIT)

hash_shake256_binary(data, outsizeBytes, le) ==
  shake_render(
    hash_private_keccak_Keccak(
      1088, 512, data, 31,
      IF outsizeBytes > HASH_SHAKE_256_MALLOC_LIMIT
      THEN [i \in 1..(outsizeBytes * 3 + 1) |-> Junk]
      ELSE [i \in 1..(HASH_SHAKE_256_MALLOC_LIMIT \div 2) |-> 0],
      outsizeBytes \div 2, le),
    outsizeBytes, HASH_SHAKE_256_MALLOC_LIMIT)

\* Hash::shake128(data, size, outsizeBytes) and Hash::shake256 with size = Len(data)
Hash_shake128(data, outsizeBytes, le) ==
  Util_CharArrayToHexString(
    hash_private_keccak_Keccak(1344, 256, data, 31, [i \in 1..(outsizeBytes \div 2) |-> 32],
                               outsizeBytes \div 2, le),
    outsizeBytes \div 2)

Hash_shake256(data, outsizeBytes, le) ==
  Util_CharArrayToHexString(
    hash_private_keccak_Keccak(1088, 512, data, 31, [i \in 1..(outsizeBytes \div 2) |-> 32],
                               outsizeBytes \div 2, le),
    outsizeBytes \div 2)

----------------------------------------------------------------------------
(* The streaming engines as a state machine *)

VARIABLES
  le,      \* hash_util_is_little_endian() on this host
  alg,     \* the engine this run drives
  s,       \* the engine object
  fed,     \* the bytes given to update since init
  calls,   \* number of update calls since init
  nfin,    \* number of finalize calls since init
  phase,   \* "raw" (declared), "open" (initialised), "final" (finalized), "read" (digest
           \* read), "aborted" (the process was ended by an assert)
  out,     \* the string returned by hexdigest
  upd,     \* the last update call: occupancy before, size, transforms run
  fin,     \* the last finalize call: occupancy before, transforms run
  ndebug,  \* SHA-512/t: the build defines NDEBUG
  tArg,    \* SHA-512/t: the argument t of hash_sha512t_init
  label,   \* SHA-512/t: the label hash_sha512t_init formatted
  dst,     \* SHA-512/t: where hexdigest wrote ("none", "static", "caller"), the
           \* size of that buffer and the indices written
  thr,     \* two threads: the engine, the message and the position of each
  w,       \* two threads: the static array w[] of the transform
  fs,      \* file layer: the bytes of the file at path
  io,      \* file layer: the call in progress (position, FILE, fsize, heap block)
  total,   \* MD5: the bytes supplied to update since init, modulo 2^64
  kec,     \* Keccak: the arguments and the output of the calls made
  reused   \* the engine had been used before its last init

engVars == <<s, fed, calls, nfin, phase, out, upd, fin>>
tVars == <<ndebug, tArg, label, dst>>
thrVars == <<thr, w>>
extVars == <<fs, io, total, kec, reused>>
vars == <<le, alg, engVars, tVars, thrVars, extVars>>

MaxCalls == 2
MaxOver == 3
MaxFin == 2

Algs == {"sha256", "sha512", "sha1", "md5"}
ShaAlgs == {"sha256", "sha512", "sha1"}
Wide(a) == a \in {"sha512", "sha512t"}

BlockSize(a) == IF Wide(a) THEN 128 ELSE 64

\* the sizes of the update calls tried on engine a, and the most bytes fed to it
Chunks(a) ==
  {0, 3, BlockSize(a) - 9, BlockSize(a) - 8, BlockSize(a)}
    \cup (IF a = "md5" THEN {2 * BlockSize(a)} ELSE {})
MaxLen(a) == (IF a = "md5" THEN 2 * BlockSize(a) ELSE BlockSize(a)) + MaxOver

\* byte i (from 0) of the input stream: "abc", then bytes with the top bit set and clear
Stream(i) == IF i < 3 THEN 97 + i ELSE (200 + 7 * i) % 256
Input(from, n) == [i \in 1..n |-> Stream(from + i - 1)]

\* the contents of a declared, not yet initialised object: every byte is Junk
JunkWord(n) == [i \in 1..n |-> Junk * 256 + Junk]
Raw(a) ==
  IF a = "md5"
  THEN [finalized |-> Junk, buffer |-> [i \in 1..64 |-> Junk],
        count |-> <<JunkWord(2), JunkWord(2)>>, state |-> [i \in 1..4 |-> JunkWord(2)],
        digest |-> [i \in 1..16 |-> Junk], tr |-> <<>>]
  ELSE IF Wide(a)
  THEN [bitlen |-> JunkWord(4), bufferSize |-> Junk, h |-> [i \in 1..8 |-> JunkWord(4)],
        buffer |-> [i \in 1..128 |-> Junk], t |-> Junk, tr |-> <<>>]
  ELSE [bitlen |-> JunkWord(4), bufferSize |-> Junk,
        h |-> [i \in 1..(IF a = "sha1" THEN 5 ELSE 8) |-> JunkWord(2)],
        buffer |-> [i \in 1..64 |-> Junk], tr |-> <<>>]

EngInit(a, e) ==
  CASE a = "sha256" -> hash_sha256_init(e)
    [] a = "sha512" -> hash_sha512_init(e)
    [] a = "sha1"   -> hash_sha1_init(e)
    [] a = "md5"    -> hash_md5_init(e)

EngUpdate(a, e, data, l) ==
  CASE a = "sha256" -> hash_sha256_update_binary(e, data, l)
    [] a = "sha512" -> hash_sha512_update_binary(e, data, l)
    [] a = "sha1"   -> hash_sha1_update_binary(e, data, l)
    [] a = "md5"    -> hash_md5_update_binary(e, data)

EngFinalize(a, e, l) ==
  CASE a = "sha256" -> hash_sha256_finalize(e, l)
    [] a = "sha512" -> hash_sha512_finalize(e, l)
    [] a = "sha1"   -> hash_sha1_finalize(e, l)
    [] a = "md5"    -> hash_md5_finalize(e)

\* hexdigest with buffer == NULL: the string in the static buffer hex[]
EngHex(a, e) ==
  CASE a = "sha256" -> CStr(hash_sha256_hexdigest(e, Chars(65)))
    [] a = "sha512" -> CStr(hash_sha512_hexdigest(e, Chars(129)))
    [] a = "sha1"   -> CStr(hash_sha1_hexdigest(e, Chars(41)))
    [] a = "md5"    -> CStr(hash_md5_hexdigest(e, Chars(33)))

\* the number of bytes waiting in the buffer
EngOcc(a, e) == IF a = "md5" THEN md5_index(e) ELSE e.bufferSize

\* no SHA-512/t call in this run, and no thread
NoDst == [to |-> "none", cap |-> 0, wr |-> {}]
NoT == ndebug = FALSE /\ tArg = 0 /\ label = <<>> /\ dst = NoDst
NoThreads == thr = <<>> /\ w = <<>>

\* no call of the file layer in this run, no byte supplied yet, and an engine never
\* used before
NoIo ==
  [layer |-> "none", pc |-> "idle", f |-> "none", fsize |-> 0, string |-> "none",
   mem |-> <<>>, nread |-> 0]
NoKec == [pc |-> "idle"]
NoExt == fs = <<>> /\ io = NoIo /\ total = <<0, 0, 0, 0>> /\ kec = NoKec /\ reused = FALSE

Fresh ==
  /\ fed = <<>>
  /\ calls = 0
  /\ nfin = 0
  /\ phase = "raw"
  /\ out = <<>>
  /\ upd = [occ |-> 0, n |-> 0, tr |-> 0]
  /\ fin = [occ |-> 0, tr |-> 0]

Init ==
  /\ le \in BOOLEAN
  /\ alg \in Algs
  /\ s = Raw(alg)
  /\ Fresh
  /\ NoT
  /\ NoThreads
  /\ NoExt

\* hash_<alg>_init(s)
Start ==
  /\ phase = "raw"
  /\ alg \in Algs
  /\ s' = EngInit(alg, s)
  /\ phase' = "open"
  /\ UNCHANGED <<le, alg, fed, calls, nfin, out, upd, fin, tVars, thrVars, extVars>>

\* hash_<alg>_update_binary(s, data, n) with the next n bytes of the stream
Update(n) ==
  /\ phase = "open"
  /\ calls < MaxCalls
  /\ Len(fed) + n <= MaxLen(alg)
  /\ s' = EngUpdate(alg, s, Input(Len(fed), n), le)
  /\ fed' = fed \o Input(Len(fed), n)
  /\ calls' = calls + 1
  /\ upd' = [occ |-> EngOcc(alg, s), n |-> n, tr |-> Len(s'.tr) - Len(s.tr)]
  /\ UNCHANGED <<le, alg, nfin, phase, out, fin, tVars, thrVars, extVars>>

\* hash_<alg>_finalize(s)
Finalize ==
  /\ phase \in {"open", "final"}
  /\ nfin < MaxFin
  /\ s' = EngFinalize(alg, s, le)
  /\ fin' = [occ |-> EngOcc(alg, s), tr |-> Len(s'.tr) - Len(s.tr)]
  /\ nfin' = nfin + 1
  /\ phase' = "final"
  /\ UNCHANGED <<le, alg, fed, calls, out, upd, tVars, thrVars, extVars>>

\* hash_<alg>_hexdigest(s, NULL)
Hexdigest ==
  /\ phase = "final"
  /\ alg \in Algs
  /\ out' = EngHex(alg, s)
  /\ phase' = "read"
  /\ UNCHANGED <<le, alg, s, fed, calls, nfin, upd, fin, tVars, thrVars, extVars>>

Next ==
  \/ Start
  \/ \E n \in Chunks(alg) : Update(n)
  \/ Finalize
  \/ Hexdigest

Spec == Init /\ [][Next]_vars

----------------------------------------------------------------------------
(* SHA-512/t as a state machine *)

\* the values of t tried: valid ones, and 384, one below 4 and one above 2048
ValidT == {4, 224, 256, 1024}
InvalidT == {3, 384, 2049}

\* the update calls tried on a SHA-512/t engine
MaxCallsT == 1
ChunksT == {0, 3, 120}

\* the static buffer hex[513] of hash_sha512t_hexdigest: zero until written
sha512t_hex == [i \in 1..513 |-> NUL]

\* the memory at a caller's buffer and after it, never written before
CallerMemory == [i \in 1..513 |-> "?"]

InitT ==
  /\ le \in BOOLEAN
  /\ alg = "sha512t"
  /\ s = Raw(alg)
  /\ Fresh
  /\ ndebug \in BOOLEAN
  /\ tArg \in ValidT \cup InvalidT
  /\ label = <<>>
  /\ dst = NoDst
  /\ NoThreads
  /\ NoExt

\* what hash_sha512t_init leaves: r is its outcome
Initialised(r) ==
  /\ s' = r.s
  /\ label' = r.str
  /\ phase' = IF r.aborted THEN "aborted" ELSE "open"

\* hash_sha512t_init(s, t)
StartT ==
  /\ phase = "raw"
  /\ Initialised(hash_sha512t_init(s, tArg, ndebug, le))
  /\ UNCHANGED <<le, alg, fed, calls, nfin, out, upd, fin, ndebug, tArg, dst, thrVars, extVars>>

\* hash_sha512t_update_binary(s, data, n) with the next n bytes of the stream
UpdateT(n) ==
  /\ phase = "open"
  /\ calls < MaxCallsT
  /\ s' = hash_sha512t_update_binary(s, Input(Len(fed), n), le)
  /\ fed' = fed \o Input(Len(fed), n)
  /\ calls' = calls + 1
  /\ upd' = [occ |-> s.bufferSize, n |-> n, tr |-> Len(s'.tr) - Len(s.tr)]
  /\ UNCHANGED <<le, alg, nfin, phase, out, fin, tVars, thrVars, extVars>>

\* hash_sha512t_finalize(s)
FinalizeT ==
  /\ phase = "open"
  /\ s' = hash_sha512t_finalize(s, le)
  /\ fin' = [occ |-> s.bufferSize, tr |-> Len(s'.tr) - Len(s.tr)]
  /\ nfin' = nfin + 1
  /\ phase' = "final"
  /\ UNCHANGED <<le, alg, fed, calls, out, upd, tVars, thrVars, extVars>>

\* hash_sha512t_hexdigest(s, buffer): buffer is NULL, or a buffer of (t / 4) + 1
\* characters of the caller
HexdigestT(caller) ==
  /\ phase = "final"
  /\ LET m == [buff |-> IF caller THEN CallerMemory ELSE sha512t_hex, wr |-> {}]
         r == hash_sha512t_hexdigest(s, m)
     IN /\ out' = CStr(r.buff)
        /\ dst' = [to |-> IF caller THEN "caller" ELSE "static",
                   cap |-> IF caller THEN (s.t \div 4) + 1 ELSE 513,
                   wr |-> r.wr]
  /\ phase' = "read"
  /\ UNCHANGED <<le, alg, s, fed, calls, nfin, upd, fin, ndebug, tArg, label, thrVars, extVars>>

NextT ==
  \/ StartT
  \/ \E n \in ChunksT : UpdateT(n)
  \/ FinalizeT
  \/ \E caller \in BOOLEAN : HexdigestT(caller)

SpecT == InitT /\ [][NextT]_vars

----------------------------------------------------------------------------
(* Two threads, each hashing a message of its own with an engine of its own *)

ThreadAlgs == {"sha256", "sha512"}
Threads == {1, 2}

\* the messages the threads hash; shorter than 56 bytes, so that finalize runs the
\* transform once
Messages == {<<>>, <<97, 98, 99>>}

\* the static array of the transform when the program starts
StaticW(a) == [i \in 1..(IF a = "sha512" THEN 80 ELSE 64) |-> WordOf(0, IF a = "sha512" THEN 4 ELSE 2)]

\* init, update and finalize up to the call of the transform
EngPad(a, e, l) ==
  IF a = "sha512" THEN sha512_finalize_pad(e, l) ELSE sha256_finalize_pad(e, l)
\* the first loop of the transform, on the shared array
EngLoad(a, e, l, sw) ==
  (IF a = "sha512" THEN sha512_load(e.buffer, l) ELSE sha256_load(e.buffer, l))
    \o SubSeq(sw, 17, Len(sw))
\* the second loop of the transform, on the shared array
EngExtend(a, sw) ==
  IF a = "sha512" THEN sha512_extend(SubSeq(sw, 1, 16), 16)
  ELSE sha256_extend(SubSeq(sw, 1, 16), 16)
\* the call of compress that ends the transform
EngCompress(a, e, sw) ==
  [e EXCEPT !.h = IF a = "sha512" THEN hash_private_sha512_compress(e.h, sw)
                  ELSE hash_private_sha256_compress(e.h, sw),
            !.tr = Append(@, e.buffer)]

InitC ==
  /\ le \in BOOLEAN
  /\ alg \in ThreadAlgs
  /\ s = Raw(alg)
  /\ Fresh
  /\ NoT
  /\ NoExt
  /\ thr \in [Threads -> [s : {Raw(alg)}, msg : Messages, pc : {"start"}]]
  /\ w = StaticW(alg)

\* thread i: init, update with its message, and finalize up to the transform
ThreadStart(i) ==
  /\ thr[i].pc = "start"
  /\ thr' = [thr EXCEPT ![i].s = EngPad(alg, EngUpdate(alg, EngInit(alg, @), thr[i].msg, le), le),
                        ![i].pc = "load"]
  /\ UNCHANGED <<le, alg, engVars, tVars, w, extVars>>

\* thread i: the loop of the transform that fills w[0..15] from the buffer
ThreadLoad(i) ==
  /\ thr[i].pc = "load"
  /\ w' = EngLoad(alg, thr[i].s, le, w)
  /\ thr' = [thr EXCEPT ![i].pc = "extend"]
  /\ UNCHANGED <<le, alg, engVars, tVars, extVars>>

\* thread i: the loop of the transform that fills w[16..]
ThreadExtend(i) ==
  /\ thr[i].pc = "extend"
  /\ w' = EngExtend(alg, w)
  /\ thr' = [thr EXCEPT ![i].pc = "compress"]
  /\ UNCHANGED <<le, alg, engVars, tVars, extVars>>

\* thread i: compress, reading w[]
ThreadCompress(i) ==
  /\ thr[i].pc = "compress"
  /\ thr' = [thr EXCEPT ![i].s = EngCompress(alg, @, w), ![i].pc = "done"]
  /\ UNCHANGED <<le, alg, engVars, tVars, w, extVars>>

NextC ==
  \E i \in Threads :
    \/ ThreadStart(i)
    \/ ThreadLoad(i)
    \/ ThreadExtend(i)
    \/ ThreadCompress(i)

SpecC == InitC /\ [][NextC]_vars

----------------------------------------------------------------------------
(* SHA-224 and SHA-384 beside their base engines, as a state machine *)

VariantAlgs == {"sha256", "sha224", "sha512", "sha384"}

\* the engine whose object type a truncated variant shares (typedef Hash_Sha256
\* Hash_Sha224, typedef Hash_Sha512 Hash_Sha384)
Base(a) == IF a = "sha224" THEN "sha256" ELSE IF a = "sha384" THEN "sha512" ELSE a

ChunksV(a) == {0, 3, BlockSize(Base(a)) - 8, BlockSize(Base(a))}

InitV ==
  /\ le \in BOOLEAN
  /\ alg \in VariantAlgs
  /\ s = Raw(Base(alg))
  /\ Fresh
  /\ NoT
  /\ NoThreads
  /\ NoExt

\* hash_<alg>_init(s)
StartV ==
  /\ phase = "raw"
  /\ alg \in VariantAlgs
  /\ s' = CASE alg = "sha224" -> hash_sha224_init(s)
            [] alg = "sha384" -> hash_sha384_init(s)
            [] OTHER -> EngInit(alg, s)
  /\ phase' = "open"
  /\ UNCHANGED <<le, alg, fed, calls, nfin, out, upd, fin, tVars, thrVars, extVars>>

\* hash_<alg>_update_binary(s, data, n) with the next n bytes of the stream
UpdateV(n) ==
  /\ phase = "open"
  /\ alg \in VariantAlgs
  /\ calls < MaxCalls
  /\ Len(fed) + n <= MaxLen(Base(alg))
  /\ s' = CASE alg = "sha224" -> hash_sha224_update_binary(s, Input(Len(fed), n), le)
            [] alg = "sha384" -> hash_sha384_update_binary(s, Input(Len(fed), n), le)
            [] OTHER -> EngUpdate(alg, s, Input(Len(fed), n), le)
  /\ fed' = fed \o Input(Len(fed), n)
  /\ calls' = calls + 1
  /\ upd' = [occ |-> s.bufferSize, n |-> n, tr |-> Len(s'.tr) - Len(s.tr)]
  /\ UNCHANGED <<le, alg, nfin, phase, out, fin, tVars, thrVars, extVars>>

\* hash_<alg>_finalize(s), once
FinalizeV ==
  /\ phase = "open"
  /\ alg \in VariantAlgs
  /\ s' = CASE alg = "sha224" -> hash_sha224_finalize(s, le)
            [] alg = "sha384" -> hash_sha384_finalize(s, le)
            [] OTHER -> EngFinalize(alg, s, le)
  /\ fin' = [occ |-> s.bufferSize, tr |-> Len(s'.tr) - Len(s.tr)]
  /\ nfin' = nfin + 1
  /\ phase' = "final"
  /\ UNCHANGED <<le, alg, fed, calls, out, upd, tVars, thrVars, extVars>>

\* hash_<alg>_hexdigest(s, NULL): the string in the static buffer hex[]
HexdigestV ==
  /\ phase = "final"
  /\ alg \in VariantAlgs
  /\ out' = CASE alg = "sha224" -> CStr(hash_sha224_hexdigest(s, Chars(57)))
              [] alg = "sha384" -> CStr(hash_sha384_hexdigest(s, Chars(97)))
              [] OTHER -> EngHex(alg, s)
  /\ phase' = "read"
  /\ UNCHANGED <<le, alg, s, fed, calls, nfin, upd, fin, tVars, thrVars, extVars>>

NextV ==
  \/ StartV
  \/ \E n \in ChunksV(alg) : UpdateV(n)
  \/ FinalizeV
  \/ HexdigestV

SpecV == InitV /\ [][NextV]_vars

----------------------------------------------------------------------------
(* MD5 update with sizes of the whole range of size_t (64 bits) *)

MaxCallsM == 3
MaxHeld == 64

\* the sizes tried, as 64-bit words: 0, 3, 64, 2^32 and 2^32 + 3
SizesM == {WordOf(0, 4), WordOf(3, 4), WordOf(64, 4), <<0, 1, 0, 0>>, <<0, 1, 0, 3>>}

\* the array at data: of its size bytes the first MaxHeld at most are kept here,
\* which are all the bytes the calls tried read
DataM(size) ==
  Input(0, IF size[1] = 0 /\ size[2] = 0 /\ size[3] = 0 /\ size[4] <= MaxHeld
           THEN size[4] ELSE MaxHeld)

InitM ==
  /\ le \in BOOLEAN
  /\ alg = "md5"
  /\ s = Raw("md5")
  /\ Fresh
  /\ NoT
  /\ NoThreads
  /\ NoExt

\* hash_md5_init(m)
StartM ==
  /\ phase = "raw"
  /\ alg = "md5"
  /\ s' = hash_md5_init(s)
  /\ phase' = "open"
  /\ total' = WordOf(0, 4)
  /\ UNCHANGED <<le, alg, fed, calls, nfin, out, upd, fin, tVars, thrVars, fs, io, kec, reused>>

\* hash_md5_update_binary(m, data, size)
UpdateM(size) ==
  /\ phase = "open"
  /\ alg = "md5"
  /\ calls < MaxCallsM
  /\ s' = hash_private_md5_update_binary(s, DataM(size), size)
  /\ total' = Add(total, size)
  /\ calls' = calls + 1
  /\ upd' = [occ |-> md5_index(s), n |-> size[4], tr |-> Len(s'.tr) - Len(s.tr)]
  /\ UNCHANGED <<le, alg, fed, nfin, phase, out, fin, tVars, thrVars, fs, io, kec, reused>>

NextM ==
  \/ StartM
  \/ \E size \in SizesM : UpdateM(size)

SpecM == InitM /\ [][NextM]_vars

----------------------------------------------------------------------------
(* The sponge called twice with the same input, for two output lengths *)

\* the (rate, capacity, delimitedSuffix) tried: SHAKE128, SHAKE256, SHA3-512, a
\* suffix with the top bit set, and a pair whose sum is not 1600
SpongeArgs ==
  {<<1344, 256, 31>>, <<1088, 512, 31>>, <<576, 1024, 6>>, <<576, 1024, 139>>, <<1344, 512, 31>>}

\* the inputs tried: none, "abc", and 71 bytes (one less than the rate of SHA3-512)
SpongeInputs == {<<>>, <<97, 98, 99>>, Input(0, 71)}

\* the output lengths tried with a rate: 0, 3, a block, and a block and a byte
OutLens(rate) == {0, 3, rate \div 8, (rate \div 8) + 1}

InitK ==
  /\ le \in BOOLEAN
  /\ alg = "keccak"
  /\ s = <<>>
  /\ Fresh
  /\ NoT
  /\ NoThreads
  /\ fs = <<>> /\ io = NoIo /\ total = <<0, 0, 0, 0>> /\ reused = FALSE
  /\ kec \in [pc : {"args"}, args : SpongeArgs, input : SpongeInputs, n : {0}, m : {0},
               first : {<<>>}, second : {<<>>}]
  /\ kec.input = Input(0, 71) => kec.args[1] = 576

\* hash_private_keccak_Keccak(rate, capacity, input, inputByteLen, delimitedSuffix,
\* output, outputByteLen) on an output array of outputByteLen bytes: the first call
KeccakFirst(outputByteLen) ==
  /\ kec.pc = "args"
  /\ kec' = [kec EXCEPT !.pc = "one", !.n = outputByteLen,
                        !.first = hash_private_keccak_Keccak(
                                    kec.args[1], kec.args[2], kec.input, kec.args[3],
                                    [i \in 1..outputByteLen |-> Junk], outputByteLen, le)]
  /\ UNCHANGED <<le, alg, engVars, tVars, thrVars, fs, io, total, reused>>

\* the second call, with the same input and another output array
KeccakSecond(outputByteLen) ==
  /\ kec.pc = "one"
  /\ kec' = [kec EXCEPT !.pc = "two", !.m = outputByteLen,
                        !.second = hash_private_keccak_Keccak(
                                     kec.args[1], kec.args[2], kec.input, kec.args[3],
                                     [i \in 1..outputByteLen |-> Junk], outputByteLen, le)]
  /\ UNCHANGED <<le, alg, engVars, tVars, thrVars, fs, io, total, reused>>

NextK ==
  \/ \E outputByteLen \in OutLens(kec.args[1]) : KeccakFirst(outputByteLen)
  \/ \E outputByteLen \in OutLens(kec.args[1]) : KeccakSecond(outputByteLen)

SpecK == InitK /\ [][NextK]_vars

----------------------------------------------------------------------------
(* The SHAKE entry points, one call *)

\* the values of outsizeBytes tried: none, odd and even ones, the limit of the
\* static buffers, and two above it
OutSizes == {0, 1, 2, 32, 64, 65, 66}

InitS ==
  /\ le \in BOOLEAN
  /\ alg \in {"shake128", "shake256"}
  /\ s = <<>>
  /\ Fresh
  /\ NoT
  /\ NoThreads
  /\ fs = <<>> /\ io = NoIo /\ total = <<0, 0, 0, 0>> /\ reused = FALSE
  /\ kec \in [pc : {"call"}, layer : {"c", "cpp"}, input : {<<>>, <<97, 98, 99>>},
               n : OutSizes]

\* hash_shake128_binary / hash_shake256_binary (data, size, outsizeBytes, NULL)
ShakeBinary ==
  /\ kec.pc = "call"
  /\ kec.layer = "c"
  /\ out' = IF alg = "shake128" THEN hash_shake128_binary(kec.input, kec.n, le)
            ELSE hash_shake256_binary(kec.input, kec.n, le)
  /\ kec' = [kec EXCEPT !.pc = "done"]
  /\ UNCHANGED <<le, alg, s, fed, calls, nfin, phase, upd, fin, tVars, thrVars, fs, io, total,
                 reused>>

\* Hash::shake128 / Hash::shake256 (data, size, outsizeBytes)
ShakeString ==
  /\ kec.pc = "call"
  /\ kec.layer = "cpp"
  /\ out' = IF alg = "shake128" THEN Hash_shake128(kec.input, kec.n, le)
            ELSE Hash_shake256(kec.input, kec.n, le)
  /\ kec' = [kec EXCEPT !.pc = "done"]
  /\ UNCHANGED <<le, alg, s, fed, calls, nfin, phase, upd, fin, tVars, thrVars, fs, io, total,
                 reused>>

NextS ==
  \/ ShakeBinary
  \/ ShakeString

SpecS == InitS /\ [][NextS]_vars

----------------------------------------------------------------------------
(* An engine used, initialised again and used again *)

MaxCallsR == 1

\* the sizes of the update calls: a few bytes, and enough for finalize to need a
\* second block
ChunksR(a) == {3, BlockSize(a) - 8}

\* hash_<alg>_update_binary(s, data, n) with the next n bytes of the stream
UpdateR(n) ==
  /\ phase = "open"
  /\ calls < MaxCallsR
  /\ s' = EngUpdate(alg, s, Input(Len(fed), n), le)
  /\ fed' = fed \o Input(Len(fed), n)
  /\ calls' = calls + 1
  /\ upd' = [occ |-> EngOcc(alg, s), n |-> n, tr |-> Len(s'.tr) - Len(s.tr)]
  /\ UNCHANGED <<le, alg, nfin, phase, out, fin, tVars, thrVars, extVars>>

\* hash_<alg>_init(s) on the engine after its first use; the record of the blocks
\* transformed starts again
Reinit ==
  /\ phase \in {"open", "final", "read"}
  /\ ~reused
  /\ s' = [EngInit(alg, s) EXCEPT !.tr = <<>>]
  /\ reused' = TRUE
  /\ fed' = <<>>
  /\ calls' = 0
  /\ nfin' = 0
  /\ phase' = "open"
  /\ out' = <<>>
  /\ upd' = [occ |-> 0, n |-> 0, tr |-> 0]
  /\ fin' = [occ |-> 0, tr |-> 0]
  /\ UNCHANGED <<le, alg, tVars, thrVars, fs, io, total, kec>>

NextR ==
  \/ Start
  \/ \E n \in ChunksR(alg) : UpdateR(n)
  \/ Finalize
  \/ Hexdigest
  \/ Reinit

SpecR == Init /\ [][NextR]_vars

----------------------------------------------------------------------------
(* The sponge, one loop iteration at a time *)

\* the permutations after which a loop of the sponge is followed no further
MaxPerm == 6

\* the (rate, capacity, delimitedSuffix) tried: SHAKE128, SHA3-512, a suffix with
\* the top bit set, the whole state as rate, no rate at all, a pair whose sum is
\* not 1600 and a rate that is no multiple of 8
StepArgs ==
  {<<1344, 256, 31>>, <<576, 1024, 6>>, <<576, 1024, 139>>, <<1600, 0, 31>>,
   <<0, 1600, 31>>, <<1344, 512, 31>>, <<1348, 252, 31>>}

\* the inputs tried with a rate: none and "abc"; with the rate of SHA3-512 also a
\* block less a byte, a block, and a block and 3 bytes
StepInputs(rate) ==
  {<<>>, <<97, 98, 99>>} \cup
  (IF rate = 576 THEN {Input(0, 71), Input(0, 72), Input(0, 75)} ELSE {})

\* the output lengths tried with a rate: those of OutLens, and with the rate of
\* SHA3-512 two blocks and a byte
StepOutLens(rate) ==
  OutLens(rate) \cup (IF rate = 576 THEN {2 * (rate \div 8) + 1} ELSE {})

\* rateInBytes - 1 in unsigned int, and whether it is an index of state[200]
keccak_last(rateInBytes) == Add(WordOf(rateInBytes, 2), WNot(WordOf(0, 2)))
InState(index) == index[1] = 0 /\ index[2] < 200

\* the call: output is an array of outputByteLen bytes and two more after them;
\* kec.k and kec.q are the locals of the absorbing and of the squeezing loop;
\* kec.top is the highest index of state used by the loops and by state[blockSize]
\* (-1: none yet), kec.pad the index rateInBytes - 1 once the padding used it
InitP ==
  /\ le \in BOOLEAN
  /\ alg = "keccak"
  /\ s = <<>>
  /\ Fresh
  /\ NoT
  /\ NoThreads
  /\ fs = <<>> /\ io = NoIo /\ total = <<0, 0, 0, 0>> /\ reused = FALSE
  /\ \E a \in StepArgs :
       \E input \in StepInputs(a[1]) :
         \E outputByteLen \in StepOutLens(a[1]) :
           kec = [pc |-> "call", args |-> a, input |-> input, outLen |-> outputByteLen,
                  k |-> [state |-> Array([i \in 1..200 |-> Junk]) \o <<0>>, at |-> 0,
                         inputByteLen |-> Len(input), blockSize |-> 0],
                  q |-> [state |-> <<>>, output |-> Array([i \in 1..(outputByteLen + 2) |-> Junk]),
                         off |-> 0, outputByteLen |-> outputByteLen],
                  top |-> -1, pad |-> <<>>]

\* hash_private_keccak_Keccak up to the first loop: the check of rate and
\* capacity, and the memset
KeccakCheck ==
  /\ kec.pc = "call"
  /\ kec' = IF kec.args[1] + kec.args[2] # 1600 \/ kec.args[1] % 8 # 0
            THEN [kec EXCEPT !.pc = "returned"]
            ELSE [kec EXCEPT !.pc = "absorb", !.k.state = keccak_memset]
  /\ UNCHANGED <<le, alg, engVars, tVars, thrVars, fs, io, total, reused>>

\* one iteration of while (inputByteLen > 0)
KeccakAbsorb ==
  /\ kec.pc = "absorb"
  /\ kec.k.inputByteLen > 0
  /\ kec.k.state[201] < MaxPerm
  /\ kec' = [kec EXCEPT !.k = keccak_absorb_step(kec.k, kec.input, kec.args[1] \div 8, le),
                        !.top = IF HASH_PRIVATE_KECCAK_MIN(kec.k.inputByteLen, kec.args[1] \div 8) - 1 > @
                                THEN HASH_PRIVATE_KECCAK_MIN(kec.k.inputByteLen, kec.args[1] \div 8) - 1
                                ELSE @]
  /\ UNCHANGED <<le, alg, engVars, tVars, thrVars, fs, io, total, reused>>

\* the padding and the switch to the squeezing phase. state[rateInBytes - 1]
\* outside state[200] is undefined behaviour: the call may end there, or go on
\* with state as it was
KeccakPad ==
  /\ kec.pc = "absorb"
  /\ kec.k.inputByteLen = 0
  /\ \/ /\ InState(keccak_last(kec.args[1] \div 8))
        /\ kec' = [kec EXCEPT !.pc = "squeeze",
                              !.q.state = keccak_pad(kec.k, kec.args[1] \div 8, kec.args[3], le),
                              !.top = IF kec.k.blockSize > @ THEN kec.k.blockSize ELSE @,
                              !.pad = keccak_last(kec.args[1] \div 8)]
     \/ /\ ~InState(keccak_last(kec.args[1] \div 8))
        /\ kec' = [kec EXCEPT !.pc = "squeeze",
                              !.q.state = hash_private_keccak_KeccakF1600_StatePermute(
                                            [kec.k.state EXCEPT ![kec.k.blockSize + 1] =
                                                                  XorByte(@, kec.args[3])], le),
                              !.top = IF kec.k.blockSize > @ THEN kec.k.blockSize ELSE @,
                              !.pad = keccak_last(kec.args[1] \div 8)]
     \/ /\ ~InState(keccak_last(kec.args[1] \div 8))
        /\ kec' = [kec EXCEPT !.pc = "fault",
                              !.top = IF kec.k.blockSize > @ THEN kec.k.blockSize ELSE @,
                              !.pad = keccak_last(kec.args[1] \div 8)]
  /\ UNCHANGED <<le, alg, engVars, tVars, thrVars, fs, io, total, reused>>

\* one iteration of while (outputByteLen > 0)
KeccakSqueeze ==
  /\ kec.pc = "squeeze"
  /\ kec.q.outputByteLen > 0
  /\ kec.q.state[201] < MaxPerm
  /\ kec' = [kec EXCEPT !.q = keccak_squeeze_step(kec.q, kec.args[1] \div 8, le),
                        !.top = IF HASH_PRIVATE_KECCAK_MIN(kec.q.outputByteLen, kec.args[1] \div 8) - 1 > @
                                THEN HASH_PRIVATE_KECCAK_MIN(kec.q.outputByteLen, kec.args[1] \div 8) - 1
                                ELSE @]
  /\ UNCHANGED <<le, alg, engVars, tVars, thrVars, fs, io, total, reused>>

\* the end of the squeezing loop and the return
KeccakReturn ==
  /\ kec.pc = "squeeze"
  /\ kec.q.outputByteLen = 0
  /\ kec' = [kec EXCEPT !.pc = "done"]
  /\ UNCHANGED <<le, alg, engVars, tVars, thrVars, fs, io, total, reused>>

NextP == KeccakCheck \/ KeccakAbsorb \/ KeccakPad \/ KeccakSqueeze \/ KeccakReturn

SpecP == InitP /\ [][NextP]_vars

----------------------------------------------------------------------------
(* The lane walk of the steps rho and pi, one iteration at a time *)

\* the states of 25 lanes tried
MaxFill == 5

\* lane i of the state number f: four limbs that differ from lane to lane
LaneFill(f, i) ==
  <<(f * 4099 + i * 257) % 65536, (i * 12345 + f) % 65536,
    (f * i + 1) % 65536, (i + 16 * f) % 65536>>

\* kec.A0 is the state when the steps rho and pi begin, kec.r the locals of the
\* loop over t
InitW ==
  /\ le \in BOOLEAN
  /\ alg = "keccak"
  /\ s = <<>>
  /\ Fresh
  /\ NoT
  /\ NoThreads
  /\ fs = <<>> /\ io = NoIo /\ total = <<0, 0, 0, 0>> /\ reused = FALSE
  /\ \E f \in 1..MaxFill :
       kec = [pc |-> "theta", A0 |-> Array([i \in 1..25 |-> LaneFill(f, i)]),
              r |-> [A |-> Array([i \in 1..25 |-> LaneFill(f, i)]), x |-> 0, y |-> 0,
                     current |-> WordOf(Junk, 4), t |-> 0]]

\* x = 1; y = 0; current = READLANE(x, y)
RhoPiStart ==
  /\ kec.pc = "theta"
  /\ kec' = [kec EXCEPT !.pc = "walk", !.r.x = 1, !.r.y = 0, !.r.current = kec.r.A[2]]
  /\ UNCHANGED <<le, alg, engVars, tVars, thrVars, fs, io, total, reused>>

\* one iteration of for (t = 0; t < 24; t++)
RhoPiStep ==
  /\ kec.pc = "walk"
  /\ kec.r.t < 24
  /\ kec' = [kec EXCEPT !.r = keccak_rho_pi_step(kec.r)]
  /\ UNCHANGED <<le, alg, engVars, tVars, thrVars, fs, io, total, reused>>

\* the loop ends: the step chi follows
RhoPiEnd ==
  /\ kec.pc = "walk"
  /\ kec.r.t = 24
  /\ kec' = [kec EXCEPT !.pc = "chi"]
  /\ UNCHANGED <<le, alg, engVars, tVars, thrVars, fs, io, total, reused>>

NextW == RhoPiStart \/ RhoPiStep \/ RhoPiEnd

SpecW == InitW /\ [][NextW]_vars

----------------------------------------------------------------------------
(* The SHAKE entry points of the C interface, step by step, with and without a
   buffer of the caller *)

\* the values of outsizeBytes tried: those of OutSizes, and more above the limit
OutSizesB == OutSizes \cup {67, 128}

ShakeLimit == IF alg = "shake128" THEN HASH_SHAKE_128_MALLOC_LIMIT ELSE HASH_SHAKE_256_MALLOC_LIMIT

\* kec.caller: buffer # NULL; kec.n: outsizeBytes; kec.buff and kec.outIn name the
\* blocks buff and out point into, kec.buffSize and kec.outOff are the size of the
\* first and the place of out in the second; kec.mem is the memory from buff on,
\* kec.over the bytes the sponge wrote after the end of the block of buff
InitB ==
  /\ le \in BOOLEAN
  /\ alg \in {"shake128", "shake256"}
  /\ s = <<>>
  /\ Fresh
  /\ NoT
  /\ NoThreads
  /\ fs = <<>> /\ io = NoIo /\ total = <<0, 0, 0, 0>> /\ reused = FALSE
  /\ kec \in [pc : {"call"}, caller : BOOLEAN, input : {<<97, 98, 99>>}, n : OutSizesB,
               buff : {"none"}, buffSize : {0}, outIn : {"none"}, outOff : {0},
               mem : {<<>>}, over : {0}]

\* hash_shake128_binary / hash_shake256_binary up to the call of the sponge: the
\* choice of buff and out (malloc is taken to succeed)
ShakePick ==
  /\ kec.pc = "call"
  /\ kec' = IF ~kec.caller /\ kec.n > ShakeLimit
            THEN [kec EXCEPT !.pc = "picked", !.buff = "tmp", !.buffSize = kec.n * 3 + 1,
                             !.outIn = "tmp", !.outOff = kec.n]
            ELSE [kec EXCEPT !.pc = "picked", !.buff = "intBuff", !.buffSize = ShakeLimit \div 2,
                             !.outIn = IF kec.caller THEN "buffer" ELSE "hex", !.outOff = 0]
  /\ UNCHANGED <<le, alg, engVars, tVars, thrVars, fs, io, total, reused>>

\* the call of the sponge for outsizeBytes / 2 bytes at buff.  Bytes written after
\* the end of the block of buff are undefined behaviour: the call may end there,
\* or the bytes land in the memory that follows
ShakeSponge ==
  /\ kec.pc = "picked"
  /\ \/ /\ kec.n \div 2 <= kec.buffSize
        /\ kec' = [kec EXCEPT !.pc = "squeezed",
                              !.mem = hash_private_keccak_Keccak(
                                        IF alg = "shake128" THEN 1344 ELSE 1088,
                                        IF alg = "shake128" THEN 256 ELSE 512,
                                        kec.input, 31,
                                        [i \in 1..kec.buffSize |->
                                           IF kec.buff = "tmp" THEN Junk ELSE 0],
                                        kec.n \div 2, le)]
     \/ /\ kec.n \div 2 > kec.buffSize
        /\ kec' = [kec EXCEPT !.pc = "squeezed",
                              !.over = (kec.n \div 2) - kec.buffSize,
                              !.mem = hash_private_keccak_Keccak(
                                        IF alg = "shake128" THEN 1344 ELSE 1088,
                                        IF alg = "shake128" THEN 256 ELSE 512,
                                        kec.input, 31, [i \in 1..(kec.n \div 2) |-> 0],
                                        kec.n \div 2, le)]
     \/ /\ kec.n \div 2 > kec.buffSize
        /\ kec' = [kec EXCEPT !.pc = "fault", !.over = (kec.n \div 2) - kec.buffSize]
  /\ UNCHANGED <<le, alg, engVars, tVars, thrVars, fs, io, total, reused>>

\* hash_util_char_array_to_hex_string(buff, outsizeBytes / 2, out); return out
ShakeHex ==
  /\ kec.pc = "squeezed"
  /\ out' = IF kec.outIn = "tmp"
            THEN StringAt(hash_util_char_array_to_hex_string(kec.mem, kec.n \div 2, kec.mem,
                                                             kec.outOff), kec.outOff)
            ELSE StringAt(hash_util_char_array_to_hex_string(
                            kec.mem, kec.n \div 2,
                            Chars(IF kec.caller THEN kec.n + 1 ELSE ShakeLimit + 1), 0), 0)
  /\ kec' = [kec EXCEPT !.pc = "done"]
  /\ UNCHANGED <<le, alg, s, fed, calls, nfin, phase, upd, fin, tVars, thrVars, fs, io, total,
                 reused>>

NextB == ShakePick \/ ShakeSponge \/ ShakeHex

SpecB == InitB /\ [][NextB]_vars

----------------------------------------------------------------------------
(* One-shot calls of one algorithm, one after the other, with and without a
   buffer of the caller *)

\* the calls made
MaxCallsA == 2

AlgsA == {"sha256", "md5", "shake128"}

\* the messages hashed, and the values of outsizeBytes tried with a message (SHAKE
\* only): below the limit of the static buffers, and for "abc" above it too
MsgsA == {<<>>, <<97, 98, 99>>}
OutSizesA(str) == IF str = <<>> THEN {32} ELSE {32, 65}

\* a pointer is <<"null">>, <<"hex">> (the static buffer of the algorithm),
\* <<"buffer", i>> (the buffer the caller passed to call i) or <<"heap", i, off>>
\* (place off of the block call i allocated)
NullPtr == <<"null">>

\* the buffer of hexdigest always the static one (a fault the aliasing property
\* must expose)
hexdigest_buff_static(buffer) == <<"hex">>

\* char* buff = buffer == NULL ? hex : buffer;
hexdigest_buff(buffer) == IF buffer = NullPtr THEN <<"hex">> ELSE buffer

\* where hash_shake128_binary puts the string
shake_out(buffer, outsizeBytes, i) ==
  IF buffer = NullPtr
  THEN IF outsizeBytes > HASH_SHAKE_128_MALLOC_LIMIT THEN <<"heap", i, outsizeBytes>> ELSE <<"hex">>
  ELSE buffer

\* the size of static char hex[] in hexdigest, and of the buffer a caller passes
HexSize(a) == CASE a = "sha256" -> 65 [] a = "md5" -> 33 [] a = "shake128" -> 65

\* hexdigest of the engine e into the memory buff
EngHexInto(a, e, buff) ==
  CASE a = "sha256" -> hash_sha256_hexdigest(e, buff)
    [] a = "md5"    -> hash_md5_hexdigest(e, buff)

\* hash_sha256_binary / hash_md5_binary up to the hexdigest: the engine finalized
Finalized(a, str) == EngFinalize(a, EngUpdate(a, EngInit(a, Raw(a)), str, le), le)

\* kec.hex is the static buffer of the algorithm, kec.bufs[i] the buffer the
\* caller passed to call i and kec.heap[i] the block call i allocated (<<>> if
\* none), kec.rets[i] the arguments of call i and the pointer it returned
InitA ==
  /\ le \in BOOLEAN
  /\ alg \in AlgsA
  /\ s = <<>>
  /\ Fresh
  /\ NoT
  /\ NoThreads
  /\ fs = <<>> /\ io = NoIo /\ total = <<0, 0, 0, 0>> /\ reused = FALSE
  /\ kec = [pc |-> "calls", hex |-> Array(Chars(HexSize(alg))), bufs |-> <<>>, heap |-> <<>>,
            rets |-> <<>>]

\* hash_sha256_binary(str, size, buffer) and hash_md5_binary(str, size, buffer),
\* with size = Len(str); hash_sha256_easy(str) is the call with buffer == NULL
CallBinary(str, buffer) ==
  /\ kec.pc = "calls"
  /\ alg \in {"sha256", "md5"}
  /\ Len(kec.rets) < MaxCallsA
  /\ kec' = [kec EXCEPT
               !.hex = IF hexdigest_buff(buffer) = <<"hex">>
                       THEN Array(EngHexInto(alg, Finalized(alg, str), kec.hex))
                       ELSE @,
               !.bufs = Append(@, IF hexdigest_buff(buffer) = <<"hex">>
                                  THEN IF buffer = NullPtr THEN <<>>
                                       ELSE [i \in 1..HexSize(alg) |-> "?"]
                                  ELSE Array(EngHexInto(alg, Finalized(alg, str),
                                                        [i \in 1..HexSize(alg) |-> "?"]))),
               !.heap = Append(@, <<>>),
               !.rets = Append(@, [buffer |-> buffer, str |-> str, n |-> 0,
                                   ptr |-> hexdigest_buff(buffer)])]
  /\ UNCHANGED <<le, alg, engVars, tVars, thrVars, fs, io, total, reused>>

\* hash_shake128_binary(str, size, outsizeBytes, buffer), with size = Len(str) and
\* a buffer of outsizeBytes + 1 bytes; hash_shake128_easy(str, outsizeBytes) is the
\* call with buffer == NULL (malloc is taken to succeed)
CallShake(str, outsizeBytes, buffer) ==
  /\ kec.pc = "calls"
  /\ alg = "shake128"
  /\ Len(kec.rets) < MaxCallsA
  /\ kec' = [kec EXCEPT
               !.hex = IF shake_out(buffer, outsizeBytes, Len(kec.rets) + 1) = <<"hex">>
                       THEN Array(hash_util_char_array_to_hex_string(
                                    hash_private_keccak_Keccak(
                                      1344, 256, str, 31,
                                      [i \in 1..(HASH_SHAKE_128_MALLOC_LIMIT \div 2) |-> 0],
                                      outsizeBytes \div 2, le),
                                    outsizeBytes \div 2, kec.hex, 0))
                       ELSE @,
               !.bufs = Append(@, IF buffer = NullPtr THEN <<>>
                                  ELSE Array(hash_util_char_array_to_hex_string(
                                               hash_private_keccak_Keccak(
                                                 1344, 256, str, 31,
                                                 [i \in 1..(HASH_SHAKE_128_MALLOC_LIMIT \div 2) |-> 0],
                                                 outsizeBytes \div 2, le),
                                               outsizeBytes \div 2,
                                               [i \in 1..(outsizeBytes + 1) |-> "?"], 0))),
               !.heap = Append(@, IF shake_out(buffer, outsizeBytes, Len(kec.rets) + 1)[1] = "heap"
                                  THEN Array(hash_util_char_array_to_hex_string(
                                               hash_private_keccak_Keccak(
                                                 1344, 256, str, 31,
                                                 [i \in 1..(outsizeBytes * 3 + 1) |-> Junk],
                                                 outsizeBytes \div 2, le),
                                               outsizeBytes \div 2,
                                               hash_private_keccak_Keccak(
                                                 1344, 256, str, 31,
                                                 [i \in 1..(outsizeBytes * 3 + 1) |-> Junk],
                                                 outsizeBytes \div 2, le),
                                               outsizeBytes))
                                  ELSE <<>>),
               !.rets = Append(@, [buffer |-> buffer, str |-> str, n |-> outsizeBytes,
                                   ptr |-> shake_out(buffer, outsizeBytes, Len(kec.rets) + 1)])]
  /\ UNCHANGED <<le, alg, engVars, tVars, thrVars, fs, io, total, reused>>

NextA ==
  \/ \E str \in MsgsA : \E buffer \in {NullPtr, <<"buffer", Len(kec.rets) + 1>>} :
       CallBinary(str, buffer)
  \/ \E str \in MsgsA : \E outsizeBytes \in OutSizesA(str) :
       \E buffer \in {NullPtr, <<"buffer", Len(kec.rets) + 1>>} :
         CallShake(str, outsizeBytes, buffer)

SpecA == InitA /\ [][NextA]_vars

----------------------------------------------------------------------------
(* An MD5 engine through any calls: update, finalize, hexdigest and init again *)

\* the calls made on the engine after the first hash_md5_init
MaxOpsD == 4

\* the sizes of update: a few bytes and a whole block
ChunksD == {3, 64}

\* kec.last is the call made last, kec.ops the number of calls made
InitD ==
  /\ le \in BOOLEAN
  /\ alg = "md5"
  /\ s = Raw(alg)
  /\ Fresh
  /\ NoT
  /\ NoThreads
  /\ fs = <<>> /\ io = NoIo /\ total = <<0, 0, 0, 0>> /\ reused = FALSE
  /\ kec = [pc |-> "md5", last |-> "none", ops |-> 0]

\* hash_md5_init(m), the first time and again
InitMd5 ==
  /\ kec.pc = "md5"
  /\ phase = "raw" \/ kec.ops < MaxOpsD
  /\ s' = hash_md5_init(s)
  /\ phase' = "open"
  /\ fed' = <<>>
  /\ kec' = [kec EXCEPT !.last = "init", !.ops = IF phase = "raw" THEN 0 ELSE @ + 1]
  /\ UNCHANGED <<le, alg, calls, nfin, out, upd, fin, tVars, thrVars, fs, io, total, reused>>

\* hash_md5_update_binary(m, data, n), before or after a finalize
UpdateMd5(n) ==
  /\ kec.pc = "md5"
  /\ phase \in {"open", "final"}
  /\ kec.ops < MaxOpsD
  /\ s' = hash_md5_update_binary(s, Input(Len(fed), n))
  /\ fed' = fed \o Input(Len(fed), n)
  /\ kec' = [kec EXCEPT !.last = "update", !.ops = @ + 1]
  /\ UNCHANGED <<le, alg, calls, nfin, phase, out, upd, fin, tVars, thrVars, fs, io, total, reused>>

\* hash_md5_finalize(m), the first time and again
FinalizeMd5 ==
  /\ kec.pc = "md5"
  /\ phase \in {"open", "final"}
  /\ kec.ops < MaxOpsD
  /\ s' = hash_md5_finalize(s)
  /\ phase' = "final"
  /\ kec' = [kec EXCEPT !.last = "finalize", !.ops = @ + 1]
  /\ UNCHANGED <<le, alg, fed, calls, nfin, out, upd, fin, tVars, thrVars, fs, io, total, reused>>

\* hash_md5_hexdigest(m, NULL), finalized or not
HexdigestMd5 ==
  /\ kec.pc = "md5"
  /\ phase \in {"open", "final"}
  /\ kec.ops < MaxOpsD
  /\ out' = CStr(hash_md5_hexdigest(s, Chars(33)))
  /\ kec' = [kec EXCEPT !.last = "hexdigest", !.ops = @ + 1]
  /\ UNCHANGED <<le, alg, s, fed, calls, nfin, phase, upd, fin, tVars, thrVars, fs, io, total,
                 reused>>

NextD ==
  \/ InitMd5
  \/ \E n \in ChunksD : UpdateMd5(n)
  \/ FinalizeMd5
  \/ HexdigestMd5

SpecD == InitD /\ [][NextD]_vars

----------------------------------------------------------------------------
(* The file-hashing layers *)

\* the longest file tried, and the files: empty, "abc", and one of MaxFile bytes
MaxFile == 60
Files == {<<>>, <<97, 98, 99>>, Input(0, MaxFile)}

\* what a byte of a fresh heap block may hold
HeapFills == {0, Junk}

\* the byte counts a read that fails may have stored, of n bytes asked for
ShortReads(n) == {0, n - 1} \cap (0..(n - 1))

\* hash_sha256_binary(str, size, NULL) with size = Len(str): the string returned
hash_sha256_binary(str, l) ==
  CStr(hash_sha256_hexdigest(
         hash_sha256_finalize(
           hash_sha256_update_binary(hash_sha256_init(Raw("sha256")), str, l), l),
         Chars(65)))

\* Hash::sha256(std::string_view): a Sha256 object, Update, Finalize, Hexdigest.  The
\* class repeats the C engine statement by statement.
Hash_sha256(str, l) == hash_sha256_binary(str, l)

InitF ==
  /\ le \in BOOLEAN
  /\ alg = "sha256"
  /\ s = Raw(alg)
  /\ Fresh
  /\ NoT
  /\ NoThreads
  /\ fs \in Files
  /\ io \in [layer : {"c", "cpp"}, pc : {"call"}, f : {"none"}, fsize : {0}, string : {"none"},
              mem : {<<>>}, nread : {0}]
  /\ total = <<0, 0, 0, 0>>
  /\ kec = NoKec
  /\ reused = FALSE

\* hash_util_load_file: f = fopen(path, mode), and the return of NULL, on which
\* hash_util_hash_file returns ""
Fopen(ok) ==
  /\ io.layer = "c" /\ io.pc = "call"
  /\ io' = IF ok THEN [io EXCEPT !.f = "open", !.pc = "ftell"]
           ELSE [io EXCEPT !.f = "null", !.pc = "done"]
  /\ out' = IF ok THEN out ELSE <<>>
  /\ UNCHANGED <<le, alg, s, fed, calls, nfin, phase, upd, fin, tVars, thrVars, fs, total, kec, reused>>

\* hash_util_load_file: fseek, *fsize = ftell(f), fseek; ftell gives -1 when it fails
Ftell(ok) ==
  /\ io.layer = "c" /\ io.pc = "ftell"
  /\ io' = [io EXCEPT !.fsize = IF ok THEN Len(fs) ELSE -1, !.pc = "malloc"]
  /\ UNCHANGED <<le, alg, engVars, tVars, thrVars, fs, total, kec, reused>>

\* hash_util_load_file: string = malloc((size_t)*fsize), and the return of NULL, on
\* which hash_util_hash_file returns "".  (size_t)-1 bytes are never granted; a
\* request of 0 bytes may give NULL or a block; fill is what the block holds.
Malloc(ok, fill) ==
  /\ io.layer = "c" /\ io.pc = "malloc"
  /\ ok => io.fsize >= 0
  /\ io' = IF ok
           THEN [io EXCEPT !.string = "block", !.mem = [i \in 1..io.fsize |-> fill], !.pc = "fread"]
           ELSE [io EXCEPT !.string = "null", !.pc = "done"]
  /\ out' = IF ok THEN out ELSE <<>>
  /\ UNCHANGED <<le, alg, s, fed, calls, nfin, phase, upd, fin, tVars, thrVars, fs, total, kec, reused>>

\* hash_util_load_file: fread(string, *fsize, 1, f) storing k bytes, fclose(f) and
\* return string; the value fread returns is not looked at
Fread(k) ==
  /\ io.layer = "c" /\ io.pc = "fread"
  /\ io' = [io EXCEPT !.mem = SubSeq(fs, 1, k) \o SubSeq(@, k + 1, io.fsize),
                      !.nread = k, !.f = "closed", !.pc = "hash"]
  /\ UNCHANGED <<le, alg, engVars, tVars, thrVars, fs, total, kec, reused>>

\* hash_util_hash_file: hash = hashfunc(content, fsize, buffer), free(content) and
\* return hash, hashfunc being hash_sha256_binary
HashFile ==
  /\ io.layer = "c" /\ io.pc = "hash"
  /\ out' = hash_sha256_binary(io.mem, le)
  /\ io' = [io EXCEPT !.string = "freed", !.pc = "done"]
  /\ UNCHANGED <<le, alg, s, fed, calls, nfin, phase, upd, fin, tVars, thrVars, fs, total, kec, reused>>

\* Hash::Util::LoadFile: the ifstream is opened, and "" is returned when it is not open
IfstreamOpen(ok) ==
  /\ io.layer = "cpp" /\ io.pc = "call"
  /\ io' = IF ok THEN [io EXCEPT !.f = "open", !.pc = "read"]
           ELSE [io EXCEPT !.f = "null", !.string = "block", !.mem = <<>>, !.pc = "hash"]
  /\ UNCHANGED <<le, alg, engVars, tVars, thrVars, fs, total, kec, reused>>

\* Hash::Util::LoadFile: size = tellg(), data(size, ' '), infile.read storing k bytes,
\* and return data (tellg is taken to succeed)
IfstreamRead(k) ==
  /\ io.layer = "cpp" /\ io.pc = "read"
  /\ io' = [io EXCEPT !.fsize = Len(fs), !.string = "block",
                      !.mem = SubSeq(fs, 1, k) \o [i \in 1..(Len(fs) - k) |-> 32],
                      !.nread = k, !.f = "closed", !.pc = "hash"]
  /\ UNCHANGED <<le, alg, engVars, tVars, thrVars, fs, total, kec, reused>>

\* Hash::File::sha256: Hash::sha256 on the string LoadFile returned
HashString ==
  /\ io.layer = "cpp" /\ io.pc = "hash"
  /\ out' = Hash_sha256(io.mem, le)
  /\ io' = [io EXCEPT !.string = "freed", !.pc = "done"]
  /\ UNCHANGED <<le, alg, s, fed, calls, nfin, phase, upd, fin, tVars, thrVars, fs, total, kec, reused>>

NextF ==
  \/ \E ok \in BOOLEAN : Fopen(ok)
  \/ \E ok \in BOOLEAN : Ftell(ok)
  \/ \E ok \in BOOLEAN, fill \in HeapFills : Malloc(ok, fill)
  \/ \E k \in {io.fsize} \cup ShortReads(io.fsize) : Fread(k)
  \/ HashFile
  \/ \E ok \in BOOLEAN : IfstreamOpen(ok)
  \/ \E k \in {Len(fs)} \cup ShortReads(Len(fs)) : IfstreamRead(k)
  \/ HashString

SpecF == InitF /\ [][NextF]_vars

----------------------------------------------------------------------------
(* Properties of the streaming engines *)

\* the engine after one update call with all the bytes fed so far
OneShot == EngUpdate(alg, EngInit(alg, Raw(alg)), fed, le)

\* the part of a SHA engine a later call can observe: chaining words, bit count,
\* occupancy and the occupied part of the buffer
Observable(e) == <<e.h, e.bitlen, e.bufferSize, SubSeq(e.buffer, 1, e.bufferSize)>>

\* C1: for the SHA engines, the state after any sequence of update calls, and the
\* digest read after finalize, are those of a single update call with the
\* concatenation of the chunks.
C1_ChunkInvariance ==
  alg \in ShaAlgs =>
    /\ phase = "open" => /\ Observable(s) = Observable(OneShot)
                         /\ s.tr = OneShot.tr
    /\ (phase = "read" /\ nfin = 1) => out = EngHex(alg, EngFinalize(alg, OneShot, le))

\* two chunks, the second one crossing a block boundary from a partly filled buffer
C1_Witness ==
  /\ alg = "sha256" /\ phase = "read" /\ nfin = 1
  /\ calls = 2 /\ upd.occ = 3 /\ upd.n = 64 /\ upd.tr = 1

\* the blocks handed to the transform, in order, as one byte string
RECURSIVE Flatten(_)
Flatten(blocks) == IF blocks = <<>> THEN <<>> ELSE Head(blocks) \o Flatten(Tail(blocks))

\* the bytes of a last block that hold neither message bytes nor the 0x80 byte
LengthField(a) == IF Wide(a) THEN 16 ELSE 8

\* the smallest multiple of the block size holding n message bytes, the 0x80 byte
\* and the length field
PaddedLen(a, n) ==
  BlockSize(a) * ((n + 1 + LengthField(a) + BlockSize(a) - 1) \div BlockSize(a))

\* 8 * n as a 64-bit big-endian number, n < 2^20
BitLenBE(n) == [i \in 1..8 |-> IF i <= 4 THEN 0 ELSE ((8 * n) \div (256 ^ (8 - i))) % 256]

\* C2: for a message of N bytes fed to a SHA engine, the blocks transformed up to
\* the end of finalize are the message, the byte 0x80, zero bytes up to the last
\* 8 bytes of the padded length, and 8 * N as a 64-bit big-endian number.
C2_Padding ==
  (alg \in ShaAlgs /\ phase \in {"final", "read"} /\ nfin = 1) =>
    LET n == Len(fed)
    IN Flatten(s.tr) = fed \o <<128>> \o [i \in 1..(PaddedLen(alg, n) - n - 9) |-> 0]
                           \o BitLenBE(n)

\* SHA-512 finalized with 120 bytes waiting: the padding takes a second block, whose
\* bytes 112..119 held message bytes before
C2_Witness ==
  /\ alg = "sha512" /\ phase = "final" /\ nfin = 1
  /\ fin.occ = 120 /\ fin.tr = 2 /\ Len(fed) = 120

\* C4: for MD5, the blocks transformed, the bit count and the bytes waiting in the
\* buffer after any sequence of update calls are those of a single call with the
\* concatenation, and a call that finds index bytes waiting and brings size bytes
\* runs floor((index + size) / 64) transforms.
C4_Md5ChunkInvariance ==
  (alg = "md5" /\ phase = "open") =>
    /\ s.tr = OneShot.tr
    /\ s.state = OneShot.state
    /\ s.count = OneShot.count
    /\ SubSeq(s.buffer, 1, EngOcc(alg, s)) = SubSeq(OneShot.buffer, 1, EngOcc(alg, s))
    /\ Flatten(s.tr) \o SubSeq(s.buffer, 1, EngOcc(alg, s)) = fed
    /\ upd.tr = (upd.occ + upd.n) \div 64

\* a call that completes the waiting block, transforms another one straight from the
\* input and keeps 3 bytes
C4_Witness ==
  /\ alg = "md5" /\ phase = "open" /\ calls = 2
  /\ upd.occ = 3 /\ upd.n = 128 /\ upd.tr = 2 /\ EngOcc(alg, s) = 3

\* what C5 says of the last finalize call
FinalizeCount ==
  /\ fin.tr \in {1, 2}
  /\ fin.tr = 2 <=> fin.occ >= (IF alg = "sha512" THEN 112 ELSE 56)

\* C5 as stated: every finalize call runs one or two transforms, two exactly when
\* the occupancy at the call is at least 56 (112 for SHA-512).
C5_AsStated == nfin >= 1 => FinalizeCount

\* C5 (amended): a finalize call on a SHA engine, and the first finalize call on an
\* MD5 engine, runs one or two transforms, two exactly when the occupancy at the call
\* is at least 56 (112 for SHA-512); a later finalize call on an MD5 engine runs none.
C5_FinalizeTransforms ==
  /\ (nfin >= 1 /\ (alg \in ShaAlgs \/ nfin = 1)) => FinalizeCount
  /\ (alg = "md5" /\ nfin >= 2) => fin.tr = 0

\* a finalize call at the threshold occupancy
C5_Witness ==
  /\ alg = "sha256" /\ nfin = 1 /\ phase = "final" /\ fin.occ = 56 /\ fin.tr = 2

\* the digest of "abc" of the SHA-256 known-answer test
Sha256Abc ==
  << "b","a","7","8","1","6","b","f", "8","f","0","1","c","f","e","a",
     "4","1","4","1","4","0","d","e", "5","d","a","e","2","2","2","3",
     "b","0","0","3","6","1","a","3", "9","6","1","7","7","a","9","c",
     "b","4","1","0","f","f","6","1", "f","2","0","0","1","5","a","d" >>

\* C6: init, one update with the three bytes "abc", finalize and hexdigest on a
\* SHA-256 engine return ba7816bf...f20015ad.
C6_Sha256Abc ==
  (alg = "sha256" /\ phase = "read" /\ nfin = 1 /\ fed = <<97, 98, 99>>) => out = Sha256Abc

\* the one-shot digest of "abc" has been read
C6_Witness ==
  alg = "sha256" /\ phase = "read" /\ nfin = 1 /\ calls = 1 /\ fed = <<97, 98, 99>>

----------------------------------------------------------------------------
(* Properties of two engines driven by two threads *)

\* the chaining words of a thread's engine when its computation runs alone
Sequential(m) == EngFinalize(alg, EngUpdate(alg, EngInit(alg, Raw(alg)), m, le), le).h

\* C3: when two threads each drive an engine of their own and their steps
\* interleave, each engine ends with the chaining words of its computation run alone.
C3_ThreadsIndependent ==
  (thr # <<>> /\ \A i \in Threads : thr[i].pc = "done") =>
    \A i \in Threads : thr[i].s.h = Sequential(thr[i].msg)

\* both threads are done, and the engine of thread 1, which hashed the empty message,
\* holds other chaining words than its computation gives alone
C3_Interference ==
  /\ thr # <<>>
  /\ \A i \in Threads : thr[i].pc = "done"
  /\ alg = "sha256" /\ thr[1].msg = <<>> /\ thr[2].msg = <<97, 98, 99>>
  /\ thr[1].s.h # Sequential(thr[1].msg)

----------------------------------------------------------------------------
(* Properties of SHA-512/t *)

\* the label as the claim words it: "SHA-512/" and t in decimal
DigitCount(t) == IF t < 10 THEN 1 ELSE IF t < 100 THEN 2 ELSE IF t < 1000 THEN 3 ELSE 4
LabelOf(t) ==
  <<83, 72, 65, 45, 53, 49, 50, 47>>
    \o [i \in 1..DigitCount(t) |-> 48 + ((t \div (10 ^ (DigitCount(t) - i))) % 10)]

TValid(t) == t >= 4 /\ t <= 2048 /\ t # 384

\* C7: hash_sha512t_init with an invalid t formats no label, runs no transform and
\* does not leave the engine looking initialised.
C7_InvalidTRejected ==
  (alg = "sha512t" /\ ~TValid(tArg) /\ phase # "raw") =>
    /\ label = <<>>
    /\ s.tr = <<>>
    /\ phase \notin {"open", "final", "read"}

\* a build with NDEBUG: init was given t = 384, formatted the label, ran the
\* transform and left an engine that takes update calls
C7_Accepted384 ==
  /\ alg = "sha512t" /\ ndebug /\ tArg = 384 /\ phase = "open"
  /\ label = LabelOf(384) /\ Len(s.tr) = 1
  /\ s.bitlen = WordOf(0, 4) /\ s.bufferSize = 0 /\ s.t = 384

\* the 128-character rendering of the chaining words
FullHex == CStr(hash_sha512_hexdigest(s, Chars(129)))

\* C8: for a valid t the string hash_sha512t_hexdigest returns has t / 4 characters,
\* the first t / 4 of the 128-character rendering of the chaining words.
C8_HexLength ==
  (alg = "sha512t" /\ TValid(tArg) /\ phase = "read") =>
    /\ Len(out) = tArg \div 4
    /\ out = SubSeq(FullHex, 1, tArg \div 4)

\* t = 1024: the string returned has 128 characters, not 256
C8_Short1024 ==
  alg = "sha512t" /\ tArg = 1024 /\ phase = "read" /\ Len(out) = 128

\* C9: for a valid t, hash_sha512t_hexdigest given a buffer of (t / 4) + 1 characters
\* writes to the indices 0 .. t / 4 only.
C9_BufferSuffices ==
  (alg = "sha512t" /\ TValid(tArg) /\ phase = "read" /\ dst.to = "caller") =>
    dst.wr \subseteq 0..(dst.cap - 1)

\* t = 224: a buffer of 57 characters, and index 128 is written
C9_Overflow224 ==
  /\ alg = "sha512t" /\ tArg = 224 /\ phase = "read"
  /\ dst.to = "caller" /\ dst.cap = 57 /\ 128 \in dst.wr

\* the first word of the initial hash value of SHA-512/224 and SHA-512/256 in
\* FIPS 180-4
Fips512t(t) ==
  IF t = 224 THEN W64(\h8c3d, \h37c8, \h1954, \h4da2) ELSE W64(\h2231, \h2194, \hfc2b, \hf72c)

\* the SHA-512 engine started from the seed, fed the label and finalized
Derived(t) ==
  hash_sha512_finalize(
    hash_sha512_update_binary(
      [Raw("sha512") EXCEPT !.bitlen = WordOf(0, 4), !.bufferSize = 0, !.h = sha512t_seed],
      LabelOf(t), le), le)

\* C10: after hash_sha512t_init(s, t) with a valid t, h holds the words the SHA-512
\* engine started from the seed produces for "SHA-512/" and t in decimal, s->t is t,
\* bitlen and bufferSize are 0, and the length a later finalize writes counts the
\* bytes fed after init only.
C10_DerivedIV ==
  (alg = "sha512t" /\ TValid(tArg)) =>
    /\ (phase = "open" /\ calls = 0) =>
         /\ s.h = Derived(tArg).h
         /\ tArg \in {224, 256} => s.h[1] = Fips512t(tArg)
         /\ s.t = tArg
         /\ s.bitlen = WordOf(0, 4)
         /\ s.bufferSize = 0
         /\ label = LabelOf(tArg)
    /\ (phase = "final" /\ nfin = 1) =>
         /\ s.bitlen = WordOf(8 * Len(fed), 4)
         /\ SubSeq(s.tr[Len(s.tr)], 121, 128) = BitLenBE(Len(fed))

\* init has run with t = 256
C10_Witness ==
  alg = "sha512t" /\ tArg = 256 /\ phase = "open" /\ calls = 0 /\ Len(s.tr) = 1

----------------------------------------------------------------------------
(* Properties of the file-hashing layers *)

\* the file was opened, sized, and read to its last byte
ReadWhole == io.f = "closed" /\ io.fsize = Len(fs) /\ io.nread = io.fsize

\* C11: hash_util_hash_file returns "" whenever fopen, ftell, malloc or fread failed,
\* and the digest of exactly the file's bytes when the file was opened and read to
\* its end.
C11_FailureSurfaced ==
  (io.layer = "c" /\ io.pc = "done") =>
    out = IF ReadWhole THEN hash_sha256_binary(fs, le) ELSE <<>>

\* fread stored none of the 3 bytes of the file, and hash_util_hash_file returned the
\* 64 digits of the digest of what the heap block held
C11_UnreadDigest ==
  /\ io.layer = "c" /\ io.pc = "done"
  /\ fs = <<97, 98, 99>> /\ io.fsize = 3 /\ io.nread = 0
  /\ Len(out) = 64
  /\ out = hash_sha256_binary(io.mem, le)
  /\ out # hash_sha256_binary(fs, le)

\* C12: for a path that cannot be opened, Hash::File::sha256 does not return the
\* digest of the empty input.
C12_OpenFailureDistinct ==
  (io.layer = "cpp" /\ io.pc = "done" /\ io.f = "null") => out # Hash_sha256(<<>>, le)

\* the ifstream was not open, and Hash::File::sha256 returned e3b0c442..., the
\* SHA-256 digest of the empty input
C12_EmptyDigest ==
  /\ io.layer = "cpp" /\ io.pc = "done" /\ io.f = "null"
  /\ Len(out) = 64
  /\ SubSeq(out, 1, 8) = <<"e", "3", "b", "0", "c", "4", "4", "2">>
  /\ SubSeq(out, 57, 64) = <<"7", "8", "5", "2", "b", "8", "5", "5">>

----------------------------------------------------------------------------
(* Properties of SHA-224 and SHA-384 *)

\* the characters printed for h[0], h[1], ... of the chaining state, in index order
FullRendering(e) ==
  HexWord(e.h[1]) \o HexWord(e.h[2]) \o HexWord(e.h[3]) \o HexWord(e.h[4])
    \o HexWord(e.h[5]) \o HexWord(e.h[6]) \o HexWord(e.h[7]) \o HexWord(e.h[8])

HexLength(a) ==
  CASE a = "sha256" -> 64 [] a = "sha224" -> 56 [] a = "sha512" -> 128 [] a = "sha384" -> 96

\* C13: the string hexdigest returns has the fixed length of its algorithm (64, 56,
\* 128, 96), is made of lowercase hex digits, and equals the first characters of
\* the rendering of h[0], h[1], ... in order, so the SHA-224 and SHA-384 strings
\* are prefixes of the full rendering of the same chaining state; and the state a
\* truncated engine reaches by update and finalize is the one the base engine's
\* update and finalize give from the same initial words.
C13_FixedWidthPrefix ==
  /\ phase = "read" =>
       /\ Len(out) = HexLength(alg)
       /\ \A i \in 1..Len(out) : \E k \in 1..16 : out[i] = HexChars[k]
       /\ out = SubSeq(FullRendering(s), 1, HexLength(alg))
  /\ (phase = "final" /\ alg = "sha224") =>
       s.h = hash_sha256_finalize(
               hash_sha256_update_binary(hash_sha224_init(Raw("sha256")), fed, le), le).h
  /\ (phase = "final" /\ alg = "sha384") =>
       s.h = hash_sha512_finalize(
               hash_sha512_update_binary(hash_sha384_init(Raw("sha512")), fed, le), le).h

\* SHA-224 of "abc" has been read: 23097d22 ... e36c9da7
C13_Sha224Abc ==
  /\ alg = "sha224"
  /\ phase = "read"
  /\ fed = <<97, 98, 99>>
  /\ SubSeq(out, 1, 8) = <<"2", "3", "0", "9", "7", "d", "2", "2">>
  /\ SubSeq(out, 49, 56) = <<"e", "3", "6", "c", "9", "d", "a", "7">>

----------------------------------------------------------------------------
(* Properties of MD5 *)

\* C14: a call of hash_md5_finalize on an engine that has been finalized since its
\* init leaves finalized, buffer, count, state and digest as they were.
C14_Md5FinalizeIdempotent ==
  [][(alg = "md5" /\ phase = "final" /\ nfin >= 1 /\ nfin' = nfin + 1) =>
       /\ s'.finalized = s.finalized
       /\ s'.buffer = s.buffer
       /\ s'.count = s.count
       /\ s'.state = s.state
       /\ s'.digest = s.digest]_vars

\* an MD5 engine that was fed bytes has been finalized twice
C14_Md5FinalizedTwice ==
  alg = "md5" /\ nfin = 2 /\ Len(fed) > 0 /\ s.finalized = 1


\* the 64-bit bit counter count[1] * 2^32 + count[0]
Md5Count(m) == <<m.count[2][1], m.count[2][2], m.count[1][1], m.count[1][2]>>

\* C15: after any updates of an initialised MD5 engine the bit counter is 8 times
\* the number of bytes supplied, modulo 2^64, and every byte supplied has been
\* transformed (64 per transform) or waits in the buffer.
C15_Md5CountsAllBytes ==
  (alg = "md5" /\ phase = "open") =>
    /\ Md5Count(s) = ShL(total, 3)
    /\ WordOf(64 * Len(s.tr) + md5_index(s), 4) = total

\* 2^32 + 3 bytes were supplied in one call: the counter holds 24 bits, no block was
\* transformed and 3 bytes wait in the buffer
C15_Md5LostBytes ==
  /\ alg = "md5"
  /\ phase = "open"
  /\ calls = 1
  /\ total = <<0, 1, 0, 3>>
  /\ Md5Count(s) = WordOf(24, 4)
  /\ Len(s.tr) = 0
  /\ md5_index(s) = 3

\* as long as every size supplied was below 2^32 the counter and the bytes agree
C15_Md5SmallSizes ==
  (alg = "md5" /\ phase = "open" /\ total[1] = 0 /\ total[2] = 0) =>
    /\ Md5Count(s) = ShL(total, 3)
    /\ WordOf(64 * Len(s.tr) + md5_index(s), 4) = total

----------------------------------------------------------------------------
(* Properties of Keccak *)

\* rate + capacity = 1600 and the rate a multiple of 8 bits
ValidSponge(args) == args[1] + args[2] = 1600 /\ args[1] % 8 = 0

\* C16: for a valid (rate, capacity, delimitedSuffix) and the same input, when the
\* sponge is called with output lengths n <= m, the n bytes written by the call
\* with n are the first n bytes written by the call with m.
C16_SqueezePrefix ==
  (kec.pc = "two" /\ ValidSponge(kec.args)) =>
    /\ Len(kec.first) = kec.n /\ Len(kec.second) = kec.m
    /\ kec.n <= kec.m => kec.first = SubSeq(kec.second, 1, kec.n)
    /\ kec.m <= kec.n => kec.second = SubSeq(kec.first, 1, kec.m)

\* SHAKE128 of "abc" was squeezed for 3 bytes (58 81 09) and then for 169 bytes,
\* more than a block
C16_Shake128Abc ==
  /\ kec.pc = "two"
  /\ le
  /\ kec.args = <<1344, 256, 31>>
  /\ kec.input = <<97, 98, 99>>
  /\ kec.n = 3
  /\ kec.m = 169
  /\ kec.first = <<88, 129, 9>>
  /\ kec.second[169] # Junk


\* the first n bytes the sponge gives for SHAKE128 or SHAKE256 of input
ShakeBytes(a, input, n, l) ==
  hash_private_keccak_Keccak(IF a = "shake128" THEN 1344 ELSE 1088,
                             IF a = "shake128" THEN 256 ELSE 512,
                             input, 31, [i \in 1..n |-> 0], n, l)

\* C17: an entry point called with outsizeBytes = n returns 2n hex characters, the
\* rendering of n bytes squeezed from the sponge.
C17_ShakeHonoursLength ==
  (kec.pc = "done" /\ alg \in {"shake128", "shake256"}) =>
    /\ Len(out) = 2 * kec.n
    /\ out = Util_CharArrayToHexString(ShakeBytes(alg, kec.input, kec.n, le), kec.n)

\* hash_shake128_binary of the empty input with outsizeBytes = 32 returned the 32
\* digits of 16 bytes: 7f9c2ba4e88f827d616045507605853e
C17_ShakeHalf ==
  /\ kec.pc = "done"
  /\ kec.layer = "c"
  /\ alg = "shake128"
  /\ le
  /\ kec.input = <<>>
  /\ kec.n = 32
  /\ Len(out) = 32
  /\ out = Util_CharArrayToHexString(ShakeBytes(alg, kec.input, 16, le), 16)
  /\ SubSeq(out, 1, 8) = <<"7", "f", "9", "c", "2", "b", "a", "4">>
  /\ SubSeq(out, 25, 32) = <<"7", "6", "0", "5", "8", "5", "3", "e">>

\* what the entry points do return: the digits of outsizeBytes / 2 bytes
C17_ShakeHalfLength ==
  (kec.pc = "done" /\ alg \in {"shake128", "shake256"}) =>
    /\ Len(out) = 2 * (kec.n \div 2)
    /\ out = Util_CharArrayToHexString(ShakeBytes(alg, kec.input, kec.n \div 2, le), kec.n \div 2)

----------------------------------------------------------------------------
(* Properties of re-initialisation *)

\* what an engine of algorithm a holds besides its buffer: the chaining words, the
\* occupancy and the counter, and the blocks it has transformed
Chaining(a, e) ==
  IF a = "md5" THEN <<e.state, e.count, e.finalized, e.tr>>
  ELSE <<e.h, e.bitlen, e.bufferSize, e.tr>>

\* a never-used engine of algorithm a after init
NeverUsed(a) == EngInit(a, Raw(a))

RECURSIVE FinalizeTimes(_, _, _, _)
FinalizeTimes(a, e, k, l) ==
  IF k = 0 THEN e ELSE FinalizeTimes(a, EngFinalize(a, e, l), k - 1, l)

\* C18: an engine initialised again after any use holds the IV, no waiting byte and
\* a zero counter; and after the updates, finalize calls and hexdigest that follow,
\* its chaining words, the blocks it transformed and the digest it returns are
\* those of a never-used engine given the same calls.
C18_ReinitFresh ==
  reused =>
    /\ (phase = "open" /\ calls = 0) =>
         Chaining(alg, s) =
           CASE alg = "sha256" -> <<sha256_iv, WordOf(0, 4), 0, <<>> >>
             [] alg = "sha512" -> <<sha512_iv, WordOf(0, 4), 0, <<>> >>
             [] alg = "sha1"   -> <<sha1_iv, WordOf(0, 4), 0, <<>> >>
             [] alg = "md5"    -> <<md5_iv, <<WordOf(0, 2), WordOf(0, 2)>>, 0, <<>> >>
    /\ phase \in {"open", "final"} =>
         Chaining(alg, s) =
           Chaining(alg, FinalizeTimes(alg, EngUpdate(alg, NeverUsed(alg), fed, le), nfin, le))
    /\ phase = "read" =>
         out = EngHex(alg, FinalizeTimes(alg, EngUpdate(alg, NeverUsed(alg), fed, le), nfin, le))

\* an engine used before has been initialised again and given 3 bytes: behind them
\* its buffer still holds bytes of the earlier use
C18_SecondLife ==
  /\ reused
  /\ phase = "open"
  /\ calls = 1
  /\ Len(fed) = 3
  /\ s.buffer[4] # Junk
  /\ s.buffer[4] # NeverUsed(alg).buffer[4]

----------------------------------------------------------------------------
(* Properties of update: accounting and frame *)

\* C19: on a SHA engine, after init and updates of N bytes in all and before
\* finalize, the transform has run N div B times, bitlen is 8 * B * (N div B) and
\* bufferSize is N mod B (B the block size); every update call started with fewer
\* than B bytes waiting.
C19_UpdateAccounting ==
  (alg \in ShaAlgs /\ phase = "open") =>
    /\ Len(s.tr) = Len(fed) \div BlockSize(alg)
    /\ s.bitlen = WordOf(8 * BlockSize(alg) * (Len(fed) \div BlockSize(alg)), 4)
    /\ s.bufferSize = Len(fed) % BlockSize(alg)
    /\ s.bufferSize < BlockSize(alg)
    /\ upd.occ < BlockSize(alg)
    /\ upd.tr = ((upd.occ + upd.n) \div BlockSize(alg))

\* a SHA-512 engine has taken a block and 3 bytes in two update calls, the second
\* of which completed the block
C19_BlockAndRest ==
  /\ alg = "sha512"
  /\ phase = "open"
  /\ calls = 2
  /\ Len(fed) = 128 + 3
  /\ upd.occ > 0
  /\ upd.tr = 1
  /\ s.bufferSize = 3
  /\ s.bitlen = WordOf(1024, 4)


\* C20: between init and the end of finalize the chaining words of a SHA engine
\* change only in a step that ran the block transform, and such a step is an update
\* call that filled the buffer to the block size or a finalize call; an update call
\* that does not fill the buffer leaves every h[i] as it was.
C20_ChainingFrame ==
  [][(alg \in ShaAlgs /\ phase \in {"open", "final"}) =>
       /\ s'.h # s.h => Len(s'.tr) > Len(s.tr)
       /\ Len(s'.tr) > Len(s.tr) =>
            \/ calls' = calls + 1 /\ upd'.occ + upd'.n >= BlockSize(alg)
            \/ nfin' = nfin + 1
       /\ (calls' = calls + 1 /\ upd'.occ + upd'.n < BlockSize(alg)) =>
            s'.h = s.h /\ s'.tr = s.tr]_vars

\* a SHA-1 engine holding 3 bytes has taken 55 more without a transform, its
\* chaining words still the initial ones
C20_NoTransformYet ==
  /\ alg = "sha1"
  /\ phase = "open"
  /\ calls = 2
  /\ upd = [occ |-> 3, n |-> 55, tr |-> 0]
  /\ s.h = sha1_iv
  /\ s.bufferSize = 58

----------------------------------------------------------------------------
(* Properties of a second finalize *)

\* C21: on a SHA engine a finalize call made after a finalize call runs at least
\* one more block transform, adds bufferSize * 8 to bitlen once more and leaves
\* chaining words, and so a digest string, other than those after the first call.
C21_SecondFinalizeActs ==
  [][(alg \in ShaAlgs /\ phase = "final" /\ nfin >= 1 /\ nfin' = nfin + 1) =>
       /\ Len(s'.tr) >= Len(s.tr) + 1
       /\ s'.bufferSize = s.bufferSize
       /\ s'.bitlen = Add(s.bitlen, WordOf(s.bufferSize * 8, 4))
       /\ s'.h # s.h
       /\ EngHex(alg, s') # EngHex(alg, s)]_vars

\* a SHA-256 engine fed "abc" has been finalized twice: bitlen is 48, not 24
C21_FinalizedTwice ==
  /\ alg = "sha256"
  /\ phase = "final"
  /\ nfin = 2
  /\ fed = <<97, 98, 99>>
  /\ s.bitlen = WordOf(48, 4)
  /\ Len(s.tr) = 2

----------------------------------------------------------------------------
(* Properties of the sponge, step by step *)

\* the check of hash_private_keccak_Keccak lets the call through
ValidRate(args) == args[1] + args[2] = 1600 /\ args[1] % 8 = 0

\* C22 (first half): a call whose rate and capacity fail the check returns at once:
\* no permutation has run and no byte of the output array was written.
C22_EarlyReturn ==
  /\ kec.pc \in {"absorb", "squeeze", "done", "fault"} => ValidRate(kec.args)
  /\ kec.pc = "returned" =>
       /\ ~ValidRate(kec.args)
       /\ kec.k.state[201] = 0
       /\ kec.q.state = <<>>
       /\ kec.q.off = 0
       /\ \A i \in 1..Len(kec.q.output) : kec.q.output[i] = Junk

\* C22: a call whose rate and capacity fail the check returns at once, without a
\* permutation and without writing to the output; in a call that passes the
\* check every index of state used while absorbing, padding and squeezing is
\* below 200.
C22_SpongeCheck ==
  /\ C22_EarlyReturn
  /\ kec.pc \in {"absorb", "squeeze", "done", "fault"} =>
       /\ kec.top < 200
       /\ kec.pad # <<>> => InState(kec.pad)

\* rate 0 with capacity 1600 passes the check, and the padding then uses
\* state[rateInBytes - 1] = state[4294967295]
C22_IndexOutside ==
  /\ kec.args = <<0, 1600, 31>>
  /\ ValidRate(kec.args)
  /\ kec.pc \in {"squeeze", "fault"}
  /\ kec.pad = <<65535, 65535>>

\* for every rate above 0 tried, the indexes are below 200
C22_IndexInsideAboveZero ==
  (kec.pc \in {"absorb", "squeeze", "done", "fault"} /\ kec.args[1] > 0) =>
    /\ kec.top < 200
    /\ kec.pad # <<>> => InState(kec.pad)

\* the padding as the claim words it, on the state the absorbing loop left: the
\* suffix at byte pos, a permutation if the suffix has bit 0x80 and pos is the
\* last byte of the rate, 0x80 at the last byte of the rate, a permutation
PaddedAt(state, pos, rateInBytes, suffix) ==
  hash_private_keccak_KeccakF1600_StatePermute(
    [(IF suffix >= 128 /\ pos = rateInBytes - 1
      THEN hash_private_keccak_KeccakF1600_StatePermute(
             [state EXCEPT ![pos + 1] = XorByte(@, suffix)], le)
      ELSE [state EXCEPT ![pos + 1] = XorByte(@, suffix)])
       EXCEPT ![rateInBytes] = XorByte(@, 128)], le)

\* C23: with a rate above 0 the padding XORs the suffix into state byte
\* (inputByteLen mod rateInBytes), runs one permutation more before the 0x80
\* exactly when the suffix has bit 0x80 and that byte is byte rateInBytes - 1,
\* XORs 0x80 into byte rateInBytes - 1 and runs exactly one permutation; with the
\* suffixes 0x06 and 0x1F absorbing and padding run exactly
\* floor(inputByteLen / rateInBytes) + 1 permutations.
C23_SpongePadding ==
  [][(kec.pc = "absorb" /\ kec'.pc = "squeeze" /\ kec.args[1] > 0) =>
       /\ kec.k.blockSize = Len(kec.input) % (kec.args[1] \div 8)
       /\ kec.k.state[201] = Len(kec.input) \div (kec.args[1] \div 8)
       /\ kec'.q.state = PaddedAt(kec.k.state, Len(kec.input) % (kec.args[1] \div 8),
                                  kec.args[1] \div 8, kec.args[3])
       /\ kec'.q.state[201] - kec.k.state[201] =
            IF kec.args[3] >= 128 /\ Len(kec.input) % (kec.args[1] \div 8) = (kec.args[1] \div 8) - 1
            THEN 2 ELSE 1
       /\ kec.args[3] \in {6, 31} =>
            kec'.q.state[201] = (Len(kec.input) \div (kec.args[1] \div 8)) + 1]_vars

\* 71 bytes absorbed at rate 576 with the suffix 0x8B: the suffix falls on the
\* last byte of the rate, and the padding has run two permutations
C23_PaddedWithExtraBlock ==
  /\ kec.pc = "squeeze"
  /\ kec.args = <<576, 1024, 139>>
  /\ Len(kec.input) = 71
  /\ kec.k.state[201] = 0
  /\ kec.q.state[201] = 2
  /\ kec.q.off = 0

\* the permutations of the padding, after those of the absorbing loop
PadPermutations ==
  IF kec.args[3] >= 128 /\ kec.k.blockSize = (kec.args[1] \div 8) - 1 THEN 2 ELSE 1

\* C24: with a rate above 0 the squeezing loop writes exactly outputByteLen bytes:
\* chunks of at most rateInBytes bytes, one after the other, each the first bytes
\* of the state, with exactly one permutation between two chunks and none after
\* the last; that is max(0, ceil(outputByteLen / rateInBytes) - 1) permutations,
\* and nothing is written when outputByteLen is 0.
C24_SpongeSqueeze ==
  [][/\ (kec.pc = "squeeze" /\ kec'.pc = "squeeze" /\ kec'.q # kec.q /\ kec.args[1] > 0) =>
          /\ kec'.q.off - kec.q.off >= 1
          /\ kec'.q.off - kec.q.off <= kec.args[1] \div 8
          /\ kec'.q.off - kec.q.off =
               HASH_PRIVATE_KECCAK_MIN(kec.outLen - kec.q.off, kec.args[1] \div 8)
          /\ kec'.q.outputByteLen = kec.outLen - kec'.q.off
          /\ \A i \in 1..Len(kec.q.output) :
               kec'.q.output[i] = IF i > kec.q.off /\ i <= kec'.q.off
                                  THEN kec.q.state[i - kec.q.off]
                                  ELSE kec.q.output[i]
          /\ kec'.q.state[201] - kec.q.state[201] = IF kec'.q.off < kec.outLen THEN 1 ELSE 0
          /\ kec'.q.off < kec.outLen =>
               kec'.q.state = hash_private_keccak_KeccakF1600_StatePermute(kec.q.state, le)
          /\ kec'.q.off = kec.outLen => kec'.q.state = kec.q.state
     /\ (kec.pc = "squeeze" /\ kec'.pc = "done" /\ kec.args[1] > 0) =>
          /\ kec'.q = kec.q
          /\ kec.q.off = kec.outLen
          /\ kec.q.output[kec.outLen + 1] = Junk /\ kec.q.output[kec.outLen + 2] = Junk
          /\ kec.outLen = 0 => \A i \in 1..Len(kec.q.output) : kec.q.output[i] = Junk
          /\ kec.q.state[201] - (kec.k.state[201] + PadPermutations) =
               IF kec.outLen = 0 THEN 0
               ELSE ((kec.outLen + (kec.args[1] \div 8) - 1) \div (kec.args[1] \div 8)) - 1]_vars

\* 145 bytes squeezed at rate 576: chunks of 72, 72 and 1 bytes with two
\* permutations between them, after the one of the padding
C24_ThreeChunks ==
  /\ kec.pc = "done"
  /\ kec.args = <<576, 1024, 6>>
  /\ kec.input = <<97, 98, 99>>
  /\ kec.outLen = 145
  /\ kec.q.off = 145
  /\ kec.q.state[201] = 3

\* C27: in a call that passes the check of rate and capacity every iteration of
\* the absorbing loop consumes at least one byte of the input and every iteration
\* of the squeezing loop emits at least one byte of the output (so that both
\* loops end).
C27_SpongeProgress ==
  [][/\ (kec.pc = "absorb" /\ kec'.pc = "absorb" /\ kec'.k # kec.k) =>
          /\ kec'.k.inputByteLen < kec.k.inputByteLen
          /\ kec'.k.at > kec.k.at
     /\ (kec.pc = "squeeze" /\ kec'.pc = "squeeze" /\ kec'.q # kec.q) =>
          /\ kec'.q.outputByteLen < kec.q.outputByteLen
          /\ kec'.q.off > kec.q.off]_vars

\* rate 0 with capacity 1600 passes the check: two iterations of the absorbing
\* loop have run a permutation each and consumed nothing of "abc"
C27_AbsorbStuck ==
  /\ kec.pc = "absorb"
  /\ kec.args = <<0, 1600, 31>>
  /\ ValidRate(kec.args)
  /\ kec.k.state[201] = 2
  /\ kec.k.at = 0
  /\ kec.k.inputByteLen = 3

\* likewise two iterations of the squeezing loop that emitted nothing
C27_SqueezeStuck ==
  /\ kec.pc = "squeeze"
  /\ kec.args = <<0, 1600, 31>>
  /\ kec.q.state[201] = 3
  /\ kec.q.off = 0
  /\ kec.q.outputByteLen = kec.outLen
  /\ kec.outLen > 0

\* with a rate above 0 every iteration makes progress
C27_ProgressAboveZero ==
  [][/\ (kec.pc = "absorb" /\ kec'.pc = "absorb" /\ kec'.k # kec.k /\ kec.args[1] > 0) =>
          kec'.k.inputByteLen < kec.k.inputByteLen
     /\ (kec.pc = "squeeze" /\ kec'.pc = "squeeze" /\ kec'.q # kec.q /\ kec.args[1] > 0) =>
          kec'.q.outputByteLen < kec.q.outputByteLen]_vars

----------------------------------------------------------------------------
(* Properties of the lane walk *)

\* the coordinates after j applications of (x, y) -> (y, (2x + 3y) mod 5) to (1, 0)
RECURSIVE LaneWalkFrom(_, _, _)
LaneWalkFrom(x, y, j) ==
  IF j = 0 THEN <<x, y>> ELSE LaneWalkFrom(y, (2 * x + 3 * y) % 5, j - 1)
LaneWalk(j) == LaneWalkFrom(1, 0, j)

\* the place of the lane at coordinates c among the 25 lanes
LaneAt(c) == c[1] + 5 * c[2] + 1

\* C25: the walk of the steps rho and pi starts at (1, 0) and applies
\* (x, y) -> (y, (2x + 3y) mod 5): its 24 iterations visit each of the 24 lanes
\* other than (0, 0) exactly once and end at (1, 0); lane (0, 0) is never written;
\* the lane visited in iteration t receives the value the lane visited before it
\* had before the steps, rotated left by ((t + 1)(t + 2) / 2) mod 64.
C25_LaneWalk ==
  kec.pc \in {"walk", "chi"} =>
    /\ <<kec.r.x, kec.r.y>> = LaneWalk(kec.r.t)
    /\ Cardinality({LaneAt(LaneWalk(j)) : j \in 1..kec.r.t}) = kec.r.t
    /\ \A j \in 1..kec.r.t : LaneAt(LaneWalk(j)) # 1
    /\ kec.r.A[1] = kec.A0[1]
    /\ \A j \in 1..kec.r.t :
         kec.r.A[LaneAt(LaneWalk(j))] =
           HASH_PRIVATE_KECCAK_ROL64(kec.A0[LaneAt(LaneWalk(j - 1))], ((j * (j + 1)) \div 2) % 64)
    /\ \A i \in 1..25 :
         i \notin {LaneAt(LaneWalk(j)) : j \in 1..kec.r.t} => kec.r.A[i] = kec.A0[i]
    /\ kec.r.t < 24 => kec.r.current = kec.A0[LaneAt(LaneWalk(kec.r.t))]
    /\ kec.pc = "chi" =>
         /\ kec.r.t = 24
         /\ {LaneAt(LaneWalk(j)) : j \in 1..24} = 2..25
         /\ kec.r.x = 1 /\ kec.r.y = 0

\* the walk done: 24 iterations, back at (1, 0), every lane but (0, 0) changed
C25_WalkDone ==
  /\ kec.pc = "chi"
  /\ kec.r.t = 24
  /\ kec.r.x = 1 /\ kec.r.y = 0
  /\ kec.r.A[1] = kec.A0[1]
  /\ \A i \in 2..25 : kec.r.A[i] # kec.A0[i]

----------------------------------------------------------------------------
(* Properties of the buffers of the SHAKE entry points *)

\* C26: for every outsizeBytes, with and without a buffer of the caller, the
\* outsizeBytes / 2 bytes hash_shake128_binary and hash_shake256_binary ask the
\* sponge for fit in the block they pass to it (intBuff or the heap block), and
\* the place of the hexadecimal output does not overlap those bytes.
C26_ShakeBufferBounds ==
  kec.pc \in {"picked", "squeezed", "done", "fault"} =>
    /\ kec.n \div 2 <= kec.buffSize
    /\ kec.over = 0
    /\ kec.outIn = kec.buff => kec.outOff >= kec.n \div 2

\* hash_shake128_binary(data, size, 66, buffer) with a buffer of the caller: the
\* sponge writes 33 bytes at the 32 bytes of intBuff
C26_IntBuffOverrun ==
  /\ kec.pc \in {"squeezed", "fault"}
  /\ kec.caller
  /\ kec.n = 66
  /\ kec.buff = "intBuff"
  /\ kec.buffSize = 32
  /\ kec.over = 1

\* with buffer == NULL, and with a buffer of the caller up to outsizeBytes 65, the
\* bytes fit and the places do not overlap
C26_FitsOtherwise ==
  (kec.pc \in {"picked", "squeezed", "done", "fault"} /\ (~kec.caller \/ kec.n <= 65)) =>
    /\ kec.n \div 2 <= kec.buffSize
    /\ kec.over = 0
    /\ kec.outIn = kec.buff => kec.outOff >= kec.n \div 2
    /\ kec.pc = "done" => Len(out) = 2 * (kec.n \div 2)

----------------------------------------------------------------------------
(* Properties of the result buffers *)

\* the digest string of a message, by a call of its own
DigestString(a, str, outsizeBytes) ==
  IF a = "shake128" THEN hash_shake128_binary(str, outsizeBytes, le)
  ELSE EngHex(a, Finalized(a, str))

\* the string at a pointer in the memory k
StringAtPtr(k, ptr) ==
  CASE ptr[1] = "hex"    -> CStr(k.hex)
    [] ptr[1] = "buffer" -> CStr(k.bufs[ptr[2]])
    [] ptr[1] = "heap"   -> StringAt(k.heap[ptr[2]], ptr[3])

C28_TwoHeapBlocks ==
  /\ alg = "shake128"
  /\ Len(kec.rets) = 2
  /\ kec.rets[1].ptr = <<"heap", 1, 65>>
  /\ kec.rets[2].ptr = <<"heap", 2, 65>>
  /\ StringAtPtr(kec, kec.rets[1].ptr) = DigestString(alg, kec.rets[1].str, 65)

----------------------------------------------------------------------------
(* Properties of the file layer: what is released *)

\* C29: when hash_util_hash_file has returned, on whatever path, a FILE that
\* fopen gave has been closed, and content, if a block was loaded, has been
\* freed; before that the block is not freed.
C29_FileLayerReleases ==
  /\ (io.layer = "c" /\ io.pc = "done") =>
       /\ io.f \in {"null", "closed"}
       /\ io.string \in {"null", "freed"} \/ io.f = "null"
  /\ (io.layer = "c" /\ io.pc # "done") => io.string # "freed"

\* fopen gave a FILE, malloc gave NULL: hash_util_load_file has returned NULL and
\* hash_util_hash_file "", and the FILE is still open
C29_FileLeftOpen ==
  /\ io.layer = "c"
  /\ io.pc = "done"
  /\ io.f = "open"
  /\ io.string = "null"
  /\ out = <<>>

\* on the paths where malloc gives a block the FILE is closed before
\* hash_util_load_file returns, and content is freed after the hash is taken
C29_ReleasedWhenLoaded ==
  /\ (io.layer = "c" /\ io.pc = "hash") => io.f = "closed" /\ io.string = "block"
  /\ (io.layer = "c" /\ io.pc = "done" /\ io.string # "null") =>
       io.f \in {"null", "closed"} /\ (io.f = "closed" => io.string = "freed")
  /\ (io.layer = "c" /\ io.pc # "done") => io.string # "freed"

----------------------------------------------------------------------------
(* Properties of the MD5 digest once produced *)

\* C30: hash_md5_hexdigest returns the empty string exactly while no finalize
\* was called since the last hash_md5_init; once hash_md5_finalize was called,
\* the 16 bytes of the digest and the string hexdigest gives stay as they are
\* under every later hash_md5_update_binary, hash_md5_finalize and
\* hash_md5_hexdigest, until hash_md5_init is called again.
C30_Md5DigestFrozen ==
  [][(kec.pc = "md5" /\ kec' # kec) =>
       /\ kec'.last = "hexdigest" =>
            /\ (out' = <<>>) <=> (phase = "open")
            /\ phase = "final" => Len(out') = 32
       /\ (phase = "final" /\ kec'.last # "init") =>
            /\ s'.digest = s.digest
            /\ s'.finalized = 1
            /\ CStr(hash_md5_hexdigest(s', Chars(33))) = CStr(hash_md5_hexdigest(s, Chars(33)))
       /\ kec'.last = "init" => s'.finalized = 0]_vars

\* "abc" finalized, a block of 64 bytes more given to update, and hexdigest read:
\* it still gives the digest of "abc"
C30_ReadAfterLateUpdate ==
  /\ kec.pc = "md5"
  /\ kec.last = "hexdigest"
  /\ phase = "final"
  /\ Len(fed) = 67
  /\ Len(s.tr) = 2
  /\ out = <<"9", "0", "0", "1", "5", "0", "9", "8", "3", "c", "d", "2", "4", "f", "b", "0",
             "d", "6", "9", "6", "3", "f", "7", "d", "2", "8", "e", "1", "7", "f", "7", "2">>

=============================================================================
